---- MODULE Spec2Model ----
(***************************************************************************)
(* ClassicFM buffer player: the ring buffer (BufferService, disk-backed    *)
(* and in-memory variants), the playback state machine (PlaybackService)   *)
(* and the loops that share them, the daily rebuild (SchedulerService, in  *)
(* its three versions), the buffer thresholds and the health report of    *)
(* the HealthService and the shutdown of index.ts.                         *)
(*                                                                         *)
(* Bytes of the audio stream are numbered 1, 2, 3, ... in the order the    *)
(* Source delivers them; the code never inspects a byte's value, so a      *)
(* chunk is determined by its length and any loss, duplication or          *)
(* reordering shows in the numbers.  Byte 0 is a hole of the sparse file.  *)
(*                                                                         *)
(* Scheduling: Effect fibers run on one JavaScript thread and are          *)
(* cooperative.  A fiber runs until it suspends on an asynchronous effect  *)
(* (a sleep, a promise, a contended semaphore, awaiting another fiber), so *)
(* one action is the code between two suspension points.                   *)
(***************************************************************************)
EXTENDS Integers, Sequences, FiniteSets, TLC

\* Largest capacity (targetSize) a behaviour may start with.
MaxCapacity == 3
\* Longest chunk the Source delivers / longest consume request.
MaxChunk == 3
\* Bytes the Source delivers in one behaviour.
MaxWritten == 5
\* Chunks the in-memory variant's list may hold before a clear.
MaxChunks == 3
\* Rebuilds started in one behaviour.
MaxRebuilds == 2
MaxSamples == 3
MaxDelivered == 2

VARIABLES
  targetSize,   \* BufferService: capacity in bytes (fixed at construction)
  file,         \* disk variant: content of buffer.dat, position p at file[p + 1]
  stateRef,     \* disk variant: [totalSize, readOffset, writeOffset]
  memRef,       \* in-memory variant: [chunks, totalSize, headIndex]
  written,      \* bytes handed to append so far (the next byte is written + 1)
  live,         \* reference FIFO: the bytes appended and neither consumed, evicted nor cleared
  lastOp,       \* the last buffer call: its name, argument, results and pre-state
  pbState,      \* PlaybackService stateRef: stopped, buffering, playing or paused
  bufferFiberRef,   \* PlaybackService: TRUE when it holds the bufferLoop fiber
  playbackFiberRef, \* PlaybackService: TRUE when it holds the playbackLoop fiber
  playerRef,    \* PlaybackService: TRUE when it holds a player process
  player,       \* the ffplay process of the current runLoop: none, running or exited
  lock,         \* holder of the buffer's SynchronizedRef semaphore, or free
  ing,          \* bufferLoop fiber: [pc, from, len, snap, intr]
  retry,        \* bufferLoop: the connect cycle under way: [pc, failed, slept, reported, from]; pc is attempt, backoff, failed or connected
  pace,         \* runLoop's pacing after its last tick: [kind, now, anchored, anchor, nextWriteAt, sleepMs, slept, writes]; times in ms
  wall,         \* the host's clock and the last nextHourInfo(): [zone, hour, now, called, ms, at]; times in minutes since local midnight of day 0 in UTC
  play,         \* playbackLoop fiber: [pc, snap, intr]
  rebuildPc,    \* the fiber calling pause, clear and resume: idle or clearWait
  stopPc,       \* PlaybackService.stop: idle, awaitBuffer, awaitPlayback or done
  sink,         \* every byte written to a player's stdin, in write order
  hist,         \* history: [prev, phase], the state before the last change and the pause cycle
  initialBufferMinutes, \* AppConfig.InitialBufferMinutes
  variant,      \* SchedulerService version: probe (StreamService.ts), plain (SchedulerService.ts) or inline (PlaybackService.ts)
  rebuildLockRef,   \* SchedulerService: the rebuild lock
  fiberRef,     \* SchedulerService: TRUE when it holds the scheduling loop fiber
  rebuildFiberRef,  \* SchedulerService: the rebuild fiber it holds (0: null)
  loopPc,       \* scheduling loop fiber: none, sleep, rebuilding or done
  rb,           \* rebuild fibers: id -> [pc, owner, intr]; pc is unborn, forked, probe, clearWait, refill or done
  schedStopPc,  \* SchedulerService.stop: idle, awaitLoop, awaitRebuild or done
  lastCall,     \* the last rebuildNow(): [result, inFlight], inFlight: a rebuild was in flight when it was called
  thresholdRef, \* HealthService: [armed]
  lastHealth,   \* the BufferHealth that buffer.getHealth() returned last
  evaluating,   \* health queries under way: evaluator -> [sampled, percentage], from getHealth's reading to its Ref.modify
  response,     \* the answer of the health server to the last request
  samples,      \* the percentages handed to updateThresholds so far, in order
  events,       \* what updateThresholds reported so far, in order: armed or alert
  serverRef,    \* HealthService: TRUE when it holds the HTTP server
  monitorRef,   \* HealthService: TRUE when it holds the monitor fiber
  monitorPc,    \* monitor fiber: none, running or done
  healthStopPc, \* HealthService.stop: idle, awaitMonitor or done
  shuttingDown, \* index.ts: the shuttingDown flag
  shutdownPc,   \* the shutdown sequence: idle, playback, scheduler, health, flush or exited
  signals,      \* handleShutdown calls so far: none, one or repeated
  shutdownRuns  \* number of times the shutdown sequence was started

bufVars == <<targetSize, file, stateRef, memRef, written, live, lastOp>>
svcVars == <<pbState, bufferFiberRef, playbackFiberRef, playerRef, player, lock,
             ing, play, rebuildPc, stopPc, sink, hist>>
healthVars == <<thresholdRef, samples, events, lastHealth, evaluating, response, serverRef,
                monitorRef, monitorPc,
                healthStopPc>>
mainVars == <<shuttingDown, shutdownPc, signals, shutdownRuns>>
schedVars == <<variant, initialBufferMinutes, rebuildLockRef, fiberRef, rebuildFiberRef, loopPc, rb,
               schedStopPc, lastCall, healthVars, mainVars, retry, pace, wall>>
vars == <<targetSize, file, stateRef, memRef, written, live, lastOp,
          pbState, bufferFiberRef, playbackFiberRef, playerRef, player, lock,
          ing, retry, pace, wall, play, rebuildPc, stopPc, sink, hist,
          variant, initialBufferMinutes, rebuildLockRef, fiberRef,
          rebuildFiberRef, loopPc, rb, schedStopPc, lastCall,
          thresholdRef, samples, events, lastHealth, evaluating, response, serverRef,
          monitorRef, monitorPc,
          healthStopPc,
          shuttingDown, shutdownPc, signals, shutdownRuns>>

----------------------------------------------------------------------------
\* Plain helpers

Min(a, b) == IF a <= b THEN a ELSE b
Max(a, b) == IF a >= b THEN a ELSE b

\* The chunk of n bytes that follows `from` bytes already delivered.
Chunk(from, n) == [i \in 1..n |-> from + i]

\* Uint8Array.subarray / slice with 0-based begin (inclusive) and end (exclusive).
subarray(a, begin, end) == SubSeq(a, begin + 1, end)

\* The last n elements of a sequence (all of it when shorter).
Suffix(s, n) == IF Len(s) <= n THEN s ELSE SubSeq(s, Len(s) - n + 1, Len(s))

\* A consume result: null, or a non-null Uint8Array.
Null == [null |-> TRUE, bytes |-> <<>>]
Bytes(b) == [null |-> FALSE, bytes |-> b]

----------------------------------------------------------------------------
\* Disk-backed BufferService

InitialBufferState == [totalSize |-> 0, readOffset |-> 0, writeOffset |-> 0]

\* handle.write(data, ..., position): the file grows as needed, holes read as 0.
writeFully(f, data, position) ==
  [i \in 1..Max(Len(f), position + Len(data)) |->
     IF i > position /\ i <= position + Len(data) THEN data[i - position]
     ELSE IF i <= Len(f) THEN f[i] ELSE 0]

\* handle.read past the end of the file returns 0 bytes, which readFully throws on.
readFails(f, n, position) == n > 0 /\ position + n > Len(f)

\* The bytes read (0 where the file ends: the read then fails, see readFails).
readFully(f, n, position) ==
  [i \in 1..n |-> IF position + i <= Len(f) THEN f[position + i] ELSE 0]

\* writeChunk: the file after the write, and the write offset it returns.
writeChunkFile(f, chunk, writeOffset) ==
  LET endSpace == targetSize - writeOffset
  IN IF Len(chunk) <= endSpace
       THEN writeFully(f, chunk, writeOffset)
       ELSE writeFully(writeFully(f, subarray(chunk, 0, endSpace), writeOffset),
                       subarray(chunk, endSpace, Len(chunk)), 0)

\* Variant of writeChunk: the write offset it returns is the old one.
writeChunkKeepsOffset(chunk, writeOffset) == writeOffset

\* writeChunk: the write offset it returns.
writeChunk(chunk, writeOffset) ==
  LET endSpace == targetSize - writeOffset
  IN IF Len(chunk) <= endSpace
       THEN (writeOffset + Len(chunk)) % targetSize
       ELSE Len(chunk) - endSpace

\* Variant of appendFile: every chunk is written at position 0.
appendFileAtZero(f, state, chunk) == writeFully(f, chunk, 0)

\* append: the file it leaves.
appendFile(f, state, chunk) ==
  IF Len(chunk) = 0 \/ targetSize <= 0 THEN f
  ELSE IF Len(chunk) >= targetSize
    THEN writeFully(f, subarray(chunk, Len(chunk) - targetSize, Len(chunk)), 0)
    ELSE writeChunkFile(f, chunk, state.writeOffset)

\* Variant of newReadOffset: the sum is not reduced modulo the capacity.
readOffsetUnwrapped(state, overflow) == state.readOffset + overflow

\* append: the read offset after an overflow of `overflow` bytes (0: none).
newReadOffset(state, overflow) ==
  IF overflow > 0 THEN (state.readOffset + overflow) % targetSize
  ELSE state.readOffset

\* append: the state it stores.
append(state, chunk) ==
  IF Len(chunk) = 0 \/ targetSize <= 0 THEN state
  ELSE IF Len(chunk) >= targetSize
    THEN [totalSize |-> targetSize, readOffset |-> 0, writeOffset |-> 0]
    ELSE LET newWriteOffset == writeChunk(chunk, state.writeOffset)
             overflow == Max(0, state.totalSize + Len(chunk) - targetSize)
             newTotal == Min(targetSize, state.totalSize + Len(chunk))
         IN [totalSize |-> newTotal, readOffset |-> newReadOffset(state, overflow),
             writeOffset |-> newWriteOffset]

\* Variant of consumeOutput: an empty buffer yields an empty chunk, not null.
consumeOutputNeverNull(f, state, bytes) ==
  IF bytes <= 0 \/ state.totalSize = 0 \/ targetSize <= 0 THEN Bytes(<<>>)
  ELSE Bytes(readFully(f, Min(bytes, state.totalSize), state.readOffset))

\* consume: the bytes it returns (null when nothing is read) ...
consumeOutput(f, state, bytes) ==
  IF bytes <= 0 \/ state.totalSize = 0 \/ targetSize <= 0 THEN Null
  ELSE LET toRead == Min(bytes, state.totalSize)
           endSpace == targetSize - state.readOffset
       IN IF toRead <= endSpace
            THEN Bytes(readFully(f, toRead, state.readOffset))
            ELSE Bytes(readFully(f, endSpace, state.readOffset)
                       \o readFully(f, toRead - endSpace, 0))

\* ... whether one of its reads runs past the end of the file (a defect) ...
consumeDies(f, state, bytes) ==
  IF bytes <= 0 \/ state.totalSize = 0 \/ targetSize <= 0 THEN FALSE
  ELSE LET toRead == Min(bytes, state.totalSize)
           endSpace == targetSize - state.readOffset
       IN IF toRead <= endSpace
            THEN readFails(f, toRead, state.readOffset)
            ELSE readFails(f, endSpace, state.readOffset)
                   \/ readFails(f, toRead - endSpace, 0)

\* Variants of consume: the read offset stays; nothing is stored.
consumeKeepsOffset(state, bytes) ==
  IF bytes <= 0 \/ state.totalSize = 0 \/ targetSize <= 0 THEN state
  ELSE [state EXCEPT !.totalSize = @ - Min(bytes, @)]

consumeStoresNothing(state, bytes) == state

\* ... and the state it stores.
consume(state, bytes) ==
  IF bytes <= 0 \/ state.totalSize = 0 \/ targetSize <= 0 THEN state
  ELSE LET toRead == Min(bytes, state.totalSize)
       IN [totalSize |-> state.totalSize - toRead,
           readOffset |-> (state.readOffset + toRead) % targetSize,
           writeOffset |-> state.writeOffset]

\* Variant of clear: the offsets are reset, the size is not.
clearOffsetsOnly == [totalSize |-> targetSize, readOffset |-> 0, writeOffset |-> 0]

\* clear: the state it stores.
clear == [totalSize |-> 0, readOffset |-> 0, writeOffset |-> 0]

size(state) == state.totalSize

\* The bytes a reader would get from the buffer, oldest first.
Readable(f, state) ==
  IF state.totalSize = 0 \/ targetSize <= 0 THEN <<>>
  ELSE [i \in 1..state.totalSize |->
          LET p == (state.readOffset + i - 1) % targetSize
          IN IF p + 1 <= Len(f) THEN f[p + 1] ELSE 0]

----------------------------------------------------------------------------
\* In-memory BufferService (a growable list of chunks)

InitialMemState == [chunks |-> <<>>, totalSize |-> 0, headIndex |-> 0]

CompactThreshold == 1024

compactState(chunks, headIndex) ==
  IF headIndex > CompactThreshold /\ 2 * headIndex > Len(chunks)
    THEN [chunks |-> subarray(chunks, headIndex, Len(chunks)), headIndex |-> 0]
    ELSE [chunks |-> chunks, headIndex |-> headIndex]

\* The first loop of append: drop whole chunks from the head while over target.
RECURSIVE Mem_trim(_, _, _)
Mem_trim(chunks, totalSize, headIndex) ==
  IF totalSize > targetSize /\ headIndex < Len(chunks) - 1
    THEN Mem_trim(chunks, totalSize - Len(chunks[headIndex + 1]), headIndex + 1)
    ELSE [totalSize |-> totalSize, headIndex |-> headIndex]

Mem_append(state, chunk) ==
  LET chunks == Append(state.chunks, chunk)
      total0 == state.totalSize + Len(chunk)
      t == IF total0 > targetSize
             THEN Mem_trim(chunks, total0, state.headIndex)
             ELSE [totalSize |-> total0, headIndex |-> state.headIndex]
      slice == total0 > targetSize /\ t.totalSize > targetSize
                 /\ t.headIndex = Len(chunks) - 1
      excess == t.totalSize - targetSize
      chunks2 == IF slice
                   THEN [chunks EXCEPT ![t.headIndex + 1] =
                           subarray(@, Min(excess, Len(@)), Len(@))]
                   ELSE chunks
      totalSize == IF slice THEN targetSize ELSE t.totalSize
      compacted == compactState(chunks2, t.headIndex)
  IN [chunks |-> compacted.chunks, headIndex |-> compacted.headIndex,
      totalSize |-> totalSize]

\* The collecting loop of consume.
RECURSIVE Mem_collect(_, _, _, _)
Mem_collect(chunks, headIndex, remaining, collected) ==
  IF remaining > 0 /\ headIndex < Len(chunks)
    THEN LET first == chunks[headIndex + 1]
         IN IF Len(first) <= remaining
              THEN Mem_collect(chunks, headIndex + 1, remaining - Len(first),
                               collected \o first)
              ELSE Mem_collect([chunks EXCEPT ![headIndex + 1] =
                                  subarray(first, remaining, Len(first))],
                               headIndex, 0,
                               collected \o subarray(first, 0, remaining))
    ELSE [chunks |-> chunks, headIndex |-> headIndex, collected |-> collected]

\* consume: [out, state].
Mem_consume(state, bytes) ==
  IF state.headIndex >= Len(state.chunks) \/ state.totalSize = 0
    THEN [out |-> Null, state |-> state]
    ELSE LET c == Mem_collect(state.chunks, state.headIndex, bytes, <<>>)
             total == Len(c.collected)
             compacted == compactState(c.chunks, c.headIndex)
         IN IF total = 0
              THEN [out |-> Null, state |-> state]
              ELSE [out |-> Bytes(c.collected),
                    state |-> [chunks |-> compacted.chunks,
                               headIndex |-> compacted.headIndex,
                               totalSize |-> Max(0, state.totalSize - total)]]

Mem_clear == [chunks |-> <<>>, totalSize |-> 0, headIndex |-> 0]

RECURSIVE Flatten(_)
Flatten(ss) == IF ss = <<>> THEN <<>> ELSE Head(ss) \o Flatten(Tail(ss))

\* The bytes a reader would get from the in-memory buffer, oldest first.
Mem_readable(state) ==
  Flatten(subarray(state.chunks, Min(state.headIndex, Len(state.chunks)),
                   Len(state.chunks)))

----------------------------------------------------------------------------
\* The buffer alone: any sequence of append, consume and clear calls, the
\* same calls made on both variants.

NoOp == [op |-> "none", arg |-> 0, out |-> Null, dies |-> FALSE, memOut |-> Null,
         pre |-> InitialBufferState, preMem |-> InitialMemState,
         preLive |-> <<>>, onlyAppends |-> TRUE, preTarget |-> 0,
         prevAppendOnEmpty |-> 0]

\* The SchedulerService as constructed, in one of the given versions.
RebuildIds == 1..MaxRebuilds

\* The HealthService as constructed: disarmed, no server, no monitor.
\* Before the first sample and the first request.
NoHealth == [currentSize |-> 0, targetSize |-> 0, percentage |-> 0,
             durationMinutes |-> 0, isHealthy |-> FALSE, taken |-> FALSE]

NoResponse == [code |-> 0, status |-> "none"]

\* The fibers that run getHealth: the monitor loop, and one per request that
\* the server is answering.
Evaluators == {"monitor", "request1", "request2"}

NotSampled == [sampled |-> FALSE, percentage |-> 0]

HealthInit ==
  /\ thresholdRef = [armed |-> FALSE]
  /\ samples = <<>>
  /\ events = <<>>
  /\ lastHealth = NoHealth
  /\ evaluating = [e \in Evaluators |-> NotSampled]
  /\ response = NoResponse
  /\ serverRef = FALSE
  /\ monitorRef = FALSE
  /\ monitorPc = "none"
  /\ healthStopPc = "idle"

\* index.ts as loaded: not shutting down.
MainInit ==
  /\ shuttingDown = FALSE
  /\ shutdownPc = "idle"
  /\ signals = "none"
  /\ shutdownRuns = 0

\* The host's clock at a given minute in a given time zone, REBUILD_HOUR as
\* configured, nextHourInfo not yet called.
WallAt(zone, hour, now) ==
  [zone |-> zone, hour |-> hour, now |-> now, called |-> FALSE, ms |-> 0, at |-> 0]

SchedInitAt(variants, walls) ==
  /\ wall \in walls
  /\ variant \in variants
  /\ rebuildLockRef = FALSE
  /\ fiberRef = FALSE
  /\ rebuildFiberRef = 0
  /\ loopPc = "none"
  /\ rb = [i \in RebuildIds |-> [pc |-> "unborn", owner |-> "none", intr |-> FALSE]]
  /\ schedStopPc = "idle"
  /\ lastCall = [result |-> "none", inFlight |-> FALSE]
  /\ HealthInit
  /\ MainInit

\* REBUILD_HOUR is 4 unless it is configured.
SchedInit(variants) == SchedInitAt(variants, {WallAt("fixed", 4, 0)})

\* The PlaybackService as constructed: stopped, no fibers, no player.
InitialIng == [pc |-> "none", from |-> 0, len |-> 0, snap |-> InitialBufferState,
               intr |-> FALSE]
\* A connect cycle of bufferLoop at its first attempt, no byte received in it.
NewCycle(from) ==
  [pc |-> "attempt", failed |-> 0, slept |-> <<>>, reported |-> FALSE,
   from |-> from]

\* runLoop entered: let nextWriteAt = null, no tick yet.
NoTick ==
  [kind |-> "none", now |-> 0, anchored |-> FALSE, anchor |-> 0,
   nextWriteAt |-> 0, sleepMs |-> 0, slept |-> 0, writes |-> <<>>]

InitialPlay == [pc |-> "none", snap |-> InitialBufferState, intr |-> FALSE]

SvcInitWith(minutes) ==
  /\ initialBufferMinutes \in minutes
  /\ pbState = "stopped"
  /\ bufferFiberRef = FALSE
  /\ playbackFiberRef = FALSE
  /\ playerRef = FALSE
  /\ player = "none"
  /\ lock = "free"
  /\ ing = InitialIng
  /\ retry = NewCycle(0)
  /\ pace = NoTick
  /\ play = InitialPlay
  /\ rebuildPc = "idle"
  /\ stopPc = "idle"
  /\ sink = <<>>
  /\ hist = [prev |-> "stopped", phase |-> "none"]

\* INITIAL_BUFFER_MINUTES is 1 unless it is configured.
SvcInit == SvcInitWith({1})

BufInit ==
  /\ targetSize \in 0..MaxCapacity
  /\ file = <<>>
  /\ stateRef = InitialBufferState
  /\ memRef = InitialMemState
  /\ written = 0
  /\ live = <<>>
  /\ lastOp = NoOp
  /\ SvcInit
  /\ SchedInit({"probe"})

Call(op, arg, out, dies, memOut) ==
  [op |-> op, arg |-> arg, out |-> out, dies |-> dies, memOut |-> memOut,
   pre |-> stateRef, preMem |-> memRef, preLive |-> live,
   onlyAppends |-> lastOp.onlyAppends /\ op = "append",
   preTarget |-> targetSize,
   prevAppendOnEmpty |->
     IF lastOp.op = "append" /\ lastOp.pre.totalSize = 0 /\ lastOp.preMem.totalSize = 0
       THEN lastOp.arg ELSE 0]

BufAppend ==
  \E n \in 0..MaxChunk :
    /\ written + n <= MaxWritten
    /\ Len(memRef.chunks) < MaxChunks
    /\ LET chunk == Chunk(written, n)
       IN /\ file' = appendFile(file, stateRef, chunk)
          /\ stateRef' = append(stateRef, chunk)
          /\ memRef' = Mem_append(memRef, chunk)
          /\ live' = Suffix(live \o chunk, targetSize)
          /\ lastOp' = Call("append", n, Null, FALSE, Null)
    /\ written' = written + n
    /\ UNCHANGED <<targetSize, svcVars, schedVars>>

BufConsume ==
  \E n \in (-1)..MaxChunk :
    /\ stateRef' = consume(stateRef, n)
    /\ memRef' = Mem_consume(memRef, n).state
    /\ live' = subarray(live, Max(0, Min(n, Len(live))), Len(live))
    /\ lastOp' = Call("consume", n, consumeOutput(file, stateRef, n),
                      consumeDies(file, stateRef, n), Mem_consume(memRef, n).out)
    /\ UNCHANGED <<targetSize, file, written, svcVars, schedVars>>

BufClear ==
  /\ stateRef' = clear
  /\ memRef' = Mem_clear
  /\ live' = <<>>
  /\ lastOp' = Call("clear", 0, Null, FALSE, Null)
  /\ UNCHANGED <<targetSize, file, written, svcVars, schedVars>>

BufNext == BufAppend \/ BufConsume \/ BufClear

SpecBuffer == BufInit /\ [][BufNext]_vars

----------------------------------------------------------------------------
\* PlaybackService over the disk-backed buffer: the bufferLoop fiber, the
\* playbackLoop fiber, the fiber that calls pause / clear / resume (a
\* rebuild), and stop.  The program starts the service once, at boot.

\* 100 ms of audio, in bytes.
bytesPerChunk == 2

\* One minute of audio (60 * bitrateKBps * 1024), in bytes.
bytesPerMinute == 2

\* initialBufferMinutes * 60 * bitrateKBps * 1024, in bytes.
initialBufferBytes == initialBufferMinutes * bytesPerMinute

\* waitForMinutes: the size it waits for.
waitForMinutes == Min(targetSize, initialBufferBytes)

\* Variant of waitReturns: the wait is over at its first test.
waitReturnsAtOnce(wanted, totalSize) == TRUE

\* waitForSize: whether a test that reads totalSize ends the wait.
waitReturns(wanted, totalSize) == wanted <= 0 \/ totalSize >= wanted

\* Variant of resume: buffering from any state.
resumeFromAny(s) == "buffering"

\* Variants of pause and resume: pause from any state; resume straight to playing.
pauseFromAny(s) == "paused"

resumeToPlaying(s) == IF s = "paused" THEN "playing" ELSE s

\* pause and resume: the state each stores.
pause(s) == IF s = "playing" \/ s = "buffering" THEN "paused" ELSE s

resume(s) == IF s = "paused" THEN "buffering" ELSE s

\* Variant of runLoopState: playing is stored whatever the size read.
runLoopStateAnySize(state, bufSize) ==
  IF state = "buffering" THEN "playing" ELSE state

\* runLoop, for a state that is neither stopped nor met with a dead player:
\* the state it stores before it sleeps or consumes.
runLoopState(state, bufSize) ==
  IF state = "paused" THEN state
  ELSE IF bufSize < bytesPerChunk
    THEN (IF state = "playing" THEN "buffering" ELSE state)
    ELSE (IF state = "buffering" THEN "playing" ELSE state)

\* Variant of runLoopConsumes: consume is reached with any byte buffered.
runLoopConsumesAnyByte(state, bufSize) == state # "paused" /\ bufSize > 0

\* runLoop: whether this iteration goes on to consume.
runLoopConsumes(state, bufSize) == state # "paused" /\ bufSize >= bytesPerChunk

\* The outer loop after a "restart": the state it stores before the cooldown.
restartState(current) == IF current = "playing" THEN "buffering" ELSE current

\* SynchronizedRef: modifyEffect and set run under the ref's semaphore, so a
\* call waits while another call holds it.
mustWait(l) == l # "free"

\* append's modifyEffect: it also waits while consume waits with the semaphore
\* free.  consume began to wait before this append was called, the semaphore
\* wakes its waiters in arrival order in a task it schedules at the release,
\* and bufferLoop calls append only after a read of the stream has settled,
\* which is later than that task.
appendMustWait(l) == mustWait(l) \/ play.pc = "consumeWait"

\* Variant of clearMustWait: clear stores without the semaphore.
clearNeverWaits(l) == FALSE

\* clear is SynchronizedRef.set: it waits like the others.
clearMustWait(l) == mustWait(l)

\* append and consume reach a file operation (and so suspend holding the
\* semaphore) unless they return at their first test.
appendSuspends(n) == ~(n = 0 \/ targetSize <= 0)

consumeSuspends(state, bytes) ==
  ~(bytes <= 0 \/ state.totalSize = 0 \/ targetSize <= 0)

\* append interrupted while its write is in flight: the state is not stored;
\* the file holds none, the first or all of its writes.
interruptedAppendFiles(f, state, chunk) ==
  {f, appendFile(f, state, chunk)}
    \cup (IF Len(chunk) < targetSize /\ Len(chunk) > targetSize - state.writeOffset
            THEN {writeFully(f, subarray(chunk, 0, targetSize - state.writeOffset),
                             state.writeOffset)}
            ELSE {})

IngChunk == Chunk(ing.from, ing.len)

\* History of PlaybackState: the state before the last change, and where a
\* pause stands: paused, resumed (back to buffering), replayed (playing again).
Hist(h, s, t) ==
  IF s = t THEN h
  ELSE [prev |-> s,
        phase |-> IF t = "paused" THEN "paused"
                  ELSE IF t = "stopped" THEN "none"
                  ELSE IF s = "paused" /\ t = "buffering" THEN "resumed"
                  ELSE IF h.phase = "resumed" /\ t = "playing" THEN "replayed"
                  ELSE IF s = "paused" THEN "skipped"
                  ELSE h.phase]

NoteState == hist' = Hist(hist, pbState, pbState') /\ UNCHANGED schedVars

\* start(): from stopped only; forks both loops.  index.ts calls it once, at
\* boot, and stop() once, at shutdown.
Start ==
  /\ ing.pc = "none" /\ play.pc = "none" /\ stopPc = "idle"
  /\ pbState = "stopped"
  /\ pbState' = "buffering"
  /\ ing' = [ing EXCEPT !.pc = "connect"]
  /\ bufferFiberRef' = TRUE
  /\ play' = [play EXCEPT !.pc = "initialWait"]
  /\ playbackFiberRef' = TRUE
  /\ UNCHANGED <<bufVars, playerRef, player, lock, rebuildPc, stopPc, sink>>
  /\ NoteState

\* --- bufferLoop ---

IngUnchanged == UNCHANGED <<bufVars, pbState, bufferFiberRef, playbackFiberRef,
                            playerRef, player, lock, play, rebuildPc, stopPc, sink>>

\* stream.connect() succeeds.
ConnectOk ==
  /\ ing.pc = "connect" /\ ~ing.intr
  /\ ing' = [ing EXCEPT !.pc = "read"]
  /\ IngUnchanged
  /\ NoteState

\* stream.connect() fails after its retries: report, sleep 2 s.
ConnectFail ==
  /\ ing.pc = "connect" /\ ~ing.intr
  /\ ing' = [ing EXCEPT !.pc = "cooldown"]
  /\ IngUnchanged
  /\ NoteState

\* The 2 s sleep ends; the (empty or failed) stream is over: connect again.
Cooldown ==
  /\ ing.pc = "cooldown" /\ ~ing.intr
  /\ ing' = [ing EXCEPT !.pc = "connect"]
  /\ IngUnchanged
  /\ NoteState

\* The stream ends cleanly: connect again.
StreamEnd ==
  /\ ing.pc = "read" /\ ~ing.intr
  /\ ing' = [ing EXCEPT !.pc = "connect"]
  /\ IngUnchanged
  /\ NoteState

\* A read fails or times out: report, sleep 2 s.
ReadFail ==
  /\ ing.pc = "read" /\ ~ing.intr
  /\ ing' = [ing EXCEPT !.pc = "cooldown"]
  /\ IngUnchanged
  /\ NoteState

\* buffer.append(chunk) from its call to its first suspension.
AppendCall(from, n) ==
  IF appendMustWait(lock)
    THEN /\ ing' = [ing EXCEPT !.pc = "appendWait", !.from = from, !.len = n]
         /\ UNCHANGED lock
    ELSE IF appendSuspends(n)
      THEN /\ ing' = [ing EXCEPT !.pc = "appending", !.from = from, !.len = n,
                                 !.snap = stateRef]
           /\ lock' = "ingest"
      ELSE /\ ing' = [ing EXCEPT !.pc = "read"]
           /\ UNCHANGED lock

\* Variant of appendsChunk: a chunk is appended only while playing.
appendsOnlyWhilePlaying(s) == s = "playing"

\* runForEach's callback: whether a chunk that arrives in state s is appended.
appendsChunk(s) == s # "stopped"

\* The stream yields a chunk: dropped when stopped, appended otherwise.
Receive ==
  \E n \in 0..MaxChunk :
    /\ ing.pc = "read" /\ ~ing.intr
    /\ written + n <= MaxWritten
    /\ written' = written + n
    /\ IF appendsChunk(pbState)
         THEN AppendCall(written, n)
         ELSE UNCHANGED <<ing, lock>>
    /\ UNCHANGED <<targetSize, file, stateRef, memRef, live, lastOp, pbState,
                   bufferFiberRef, playbackFiberRef, playerRef, player, play,
                   rebuildPc, stopPc, sink>>
    /\ NoteState

\* append gets the semaphore it waited for.
AppendAcquire ==
  /\ ing.pc = "appendWait" /\ ~ing.intr
  /\ ~appendMustWait(lock)
  /\ AppendCall(ing.from, ing.len)
  /\ UNCHANGED <<bufVars, pbState, bufferFiberRef, playbackFiberRef, playerRef,
                 player, play, rebuildPc, stopPc, sink>>
  /\ NoteState

\* append's writes are done: it stores the new state and releases.
AppendEnd ==
  /\ ing.pc = "appending" /\ ~ing.intr
  /\ file' = appendFile(file, ing.snap, IngChunk)
  /\ stateRef' = append(ing.snap, IngChunk)
  /\ live' = Suffix(live \o IngChunk, targetSize)
  /\ lock' = "free"
  /\ ing' = [ing EXCEPT !.pc = "read"]
  /\ UNCHANGED <<targetSize, memRef, written, lastOp, pbState, bufferFiberRef,
                 playbackFiberRef, playerRef, player, play, rebuildPc, stopPc, sink>>
  /\ NoteState

\* --- playbackLoop ---

\* runLoop from the top of an iteration, the state not stopped and the player
\* alive, to its next suspension.
RunLoopBody ==
  /\ pbState' = runLoopState(pbState, size(stateRef))
  /\ IF runLoopConsumes(pbState, size(stateRef))
       THEN IF mustWait(lock)
              THEN play' = [play EXCEPT !.pc = "consumeWait"] /\ UNCHANGED lock
              ELSE /\ play' = [play EXCEPT !.pc = "consuming", !.snap = stateRef]
                   /\ lock' = "play"
       ELSE play' = [play EXCEPT !.pc = "loop"] /\ UNCHANGED lock

\* Variant of RestartTail: the player is left as it is.
RestartTailKeepsPlayer ==
  /\ UNCHANGED <<player, playerRef>>
  /\ IF pbState = "stopped"
       THEN play' = [play EXCEPT !.pc = "done"] /\ UNCHANGED pbState
       ELSE /\ play' = [play EXCEPT !.pc = "outer"]
            /\ pbState' = restartState(pbState)

\* runLoop returned "restart" (or the spawn failed): the player is killed, and
\* the outer loop breaks when stopped, else sleeps 1 s before a respawn.
RestartTail ==
  /\ player' = "none" /\ playerRef' = FALSE
  /\ IF pbState = "stopped"
       THEN play' = [play EXCEPT !.pc = "done"] /\ UNCHANGED pbState
       ELSE /\ play' = [play EXCEPT !.pc = "outer"]
            /\ pbState' = restartState(pbState)

\* The top of the outer loop: break when stopped, else spawn and run.
OuterTop ==
  IF pbState = "stopped"
    THEN /\ play' = [play EXCEPT !.pc = "done"]
         /\ UNCHANGED <<pbState, player, playerRef, lock>>
    ELSE \/ /\ player' = "running" /\ playerRef' = TRUE
            /\ RunLoopBody
         \/ RestartTail /\ UNCHANGED lock

PlayUnchanged == UNCHANGED <<bufVars, bufferFiberRef, playbackFiberRef, ing,
                             rebuildPc, stopPc, sink>>

\* waitForMinutes polls the size; once reached, the outer loop begins.
InitialPoll ==
  /\ play.pc = "initialWait" /\ ~play.intr
  /\ IF waitReturns(waitForMinutes, stateRef.totalSize)
       THEN OuterTop
       ELSE UNCHANGED <<pbState, player, playerRef, lock, play>>
  /\ PlayUnchanged
  /\ NoteState

\* The restart cooldown ends.
OuterWake ==
  /\ play.pc = "outer" /\ ~play.intr
  /\ OuterTop
  /\ PlayUnchanged
  /\ NoteState

\* A sleep of runLoop ends: the next iteration.
LoopWake ==
  /\ play.pc = "loop" /\ ~play.intr
  /\ IF pbState = "stopped"
       THEN /\ player' = "none" /\ playerRef' = FALSE
            /\ play' = [play EXCEPT !.pc = "done"]
            /\ UNCHANGED <<pbState, lock>>
       ELSE IF player = "exited"
         THEN RestartTail /\ UNCHANGED lock
         ELSE RunLoopBody /\ UNCHANGED <<player, playerRef>>
  /\ PlayUnchanged
  /\ NoteState

\* consume gets the semaphore it waited for.
ConsumeAcquire ==
  /\ play.pc = "consumeWait" /\ ~play.intr
  /\ ~mustWait(lock)
  /\ IF consumeSuspends(stateRef, bytesPerChunk)
       THEN /\ play' = [play EXCEPT !.pc = "consuming", !.snap = stateRef]
            /\ lock' = "play"
       ELSE play' = [play EXCEPT !.pc = "loop"] /\ UNCHANGED lock
  /\ UNCHANGED <<pbState, player, playerRef>>
  /\ PlayUnchanged
  /\ NoteState

\* consume's reads are done: it stores the new state and releases; the chunk
\* is written to the player's stdin, or the write throws.
ConsumeEnd ==
  /\ play.pc = "consuming" /\ ~play.intr
  /\ stateRef' = consume(play.snap, bytesPerChunk)
  /\ live' = subarray(live, Min(bytesPerChunk, Len(live)), Len(live))
  /\ lock' = "free"
  /\ \/ /\ sink' = sink \o consumeOutput(file, play.snap, bytesPerChunk).bytes
        /\ play' = [play EXCEPT !.pc = "flush"]
        /\ UNCHANGED <<pbState, player, playerRef>>
     \/ /\ RestartTail
        /\ UNCHANGED sink
  /\ UNCHANGED <<targetSize, file, memRef, written, lastOp, bufferFiberRef,
                 playbackFiberRef, ing, rebuildPc, stopPc>>
  /\ NoteState

\* stdin.flush() settles: pace (sleep) and loop, or restart when it failed.
FlushDone ==
  /\ play.pc = "flush" /\ ~play.intr
  /\ \/ /\ play' = [play EXCEPT !.pc = "loop"]
        /\ UNCHANGED <<pbState, player, playerRef>>
     \/ RestartTail
  /\ UNCHANGED lock
  /\ PlayUnchanged
  /\ NoteState

\* ffplay exits on its own.
PlayerExit ==
  /\ player = "running"
  /\ player' = "exited"
  /\ UNCHANGED <<bufVars, pbState, bufferFiberRef, playbackFiberRef, playerRef,
                 lock, ing, play, rebuildPc, stopPc, sink>>
  /\ NoteState

\* --- the rebuild's calls ---

RebuildUnchanged == UNCHANGED <<bufferFiberRef, playbackFiberRef, playerRef, player,
                                ing, play, stopPc, sink>>

Pause ==
  /\ rebuildPc = "idle"
  /\ pbState' = pause(pbState)
  /\ UNCHANGED <<bufVars, lock, rebuildPc>>
  /\ RebuildUnchanged
  /\ NoteState

Resume ==
  /\ rebuildPc = "idle"
  /\ pbState' = resume(pbState)
  /\ UNCHANGED <<bufVars, lock, rebuildPc>>
  /\ RebuildUnchanged
  /\ NoteState

\* buffer.clear(): at once when the semaphore is free, else it waits.
Clear ==
  /\ rebuildPc = "idle"
  /\ IF clearMustWait(lock)
       THEN rebuildPc' = "clearWait" /\ UNCHANGED <<stateRef, live>>
       ELSE stateRef' = clear /\ live' = <<>> /\ UNCHANGED rebuildPc
  /\ UNCHANGED <<targetSize, file, memRef, written, lastOp, pbState, lock>>
  /\ RebuildUnchanged
  /\ NoteState

ClearAcquire ==
  /\ rebuildPc = "clearWait"
  /\ ~mustWait(lock)
  /\ stateRef' = clear /\ live' = <<>>
  /\ rebuildPc' = "idle"
  /\ UNCHANGED <<targetSize, file, memRef, written, lastOp, pbState, lock>>
  /\ RebuildUnchanged
  /\ NoteState

\* --- stop() ---

\* Variant of StopBegin: the state is not stored.
StopBeginKeepsState ==
  /\ stopPc = "idle" /\ ing.pc # "none"
  /\ ing' = [ing EXCEPT !.intr = TRUE]
  /\ stopPc' = "awaitBuffer"
  /\ UNCHANGED <<bufVars, pbState, bufferFiberRef, playbackFiberRef, playerRef,
                 player, lock, play, rebuildPc, sink, hist, schedVars>>

\* stop(): stores stopped and interrupts the bufferLoop fiber.
StopBegin ==
  /\ stopPc = "idle" /\ ing.pc # "none"
  /\ pbState' = "stopped"
  /\ ing' = [ing EXCEPT !.intr = TRUE]
  /\ stopPc' = "awaitBuffer"
  /\ UNCHANGED <<bufVars, bufferFiberRef, playbackFiberRef, playerRef, player,
                 lock, play, rebuildPc, sink>>
  /\ NoteState

\* The interrupted bufferLoop fiber ends, releasing what it holds.
IngesterDie ==
  /\ ing.intr /\ ing.pc # "done"
  /\ IF ing.pc = "appending"
       THEN /\ lock' = "free"
            /\ file' \in interruptedAppendFiles(file, ing.snap, IngChunk)
       ELSE UNCHANGED <<lock, file>>
  /\ ing' = [ing EXCEPT !.pc = "done"]
  /\ UNCHANGED <<targetSize, stateRef, memRef, written, live, lastOp, pbState,
                 bufferFiberRef, playbackFiberRef, playerRef, player, play,
                 rebuildPc, stopPc, sink>>
  /\ NoteState

\* stop(): the bufferLoop fiber is gone; interrupts the playbackLoop fiber.
StopMid ==
  /\ stopPc = "awaitBuffer" /\ ing.pc = "done"
  /\ bufferFiberRef' = FALSE
  /\ play' = [play EXCEPT !.intr = (play.pc # "done")]
  /\ stopPc' = "awaitPlayback"
  /\ UNCHANGED <<bufVars, pbState, playbackFiberRef, playerRef, player, lock,
                 ing, rebuildPc, sink>>
  /\ NoteState

\* The interrupted playbackLoop fiber ends: inside runLoop its finalizer
\* kills the player and clears playerRef.
ConsumerDie ==
  /\ play.intr /\ play.pc # "done"
  /\ IF play.pc \in {"loop", "consumeWait", "consuming", "flush"}
       THEN player' = "none" /\ playerRef' = FALSE
       ELSE UNCHANGED <<player, playerRef>>
  /\ IF play.pc = "consuming" THEN lock' = "free" ELSE UNCHANGED lock
  /\ play' = [play EXCEPT !.pc = "done", !.intr = FALSE]
  /\ UNCHANGED <<bufVars, pbState, bufferFiberRef, playbackFiberRef, ing,
                 rebuildPc, stopPc, sink>>
  /\ NoteState

\* stop(): the playbackLoop fiber is gone; kills the player in playerRef.
StopEnd ==
  /\ stopPc = "awaitPlayback" /\ play.pc = "done"
  /\ playbackFiberRef' = FALSE
  /\ player' = IF playerRef THEN "none" ELSE player
  /\ stopPc' = "done"
  /\ UNCHANGED <<bufVars, pbState, bufferFiberRef, playerRef, lock, ing, play,
                 rebuildPc, sink>>
  /\ NoteState

Init ==
  /\ targetSize = MaxCapacity
  /\ file = <<>>
  /\ stateRef = InitialBufferState
  /\ memRef = InitialMemState
  /\ written = 0
  /\ live = <<>>
  /\ lastOp = NoOp
  /\ SvcInit
  /\ SchedInit({"probe"})

\* The running service: ingestion, playback and the rebuild's calls.
NextPipe ==
  \/ Start
  \/ ConnectOk \/ ConnectFail \/ Cooldown \/ StreamEnd \/ ReadFail
  \/ Receive \/ AppendAcquire \/ AppendEnd
  \/ InitialPoll \/ OuterWake \/ LoopWake \/ ConsumeAcquire \/ ConsumeEnd
  \/ FlushDone \/ PlayerExit
  \/ Pause \/ Resume \/ Clear \/ ClearAcquire

Next ==
  \/ NextPipe
  \/ StopBegin \/ IngesterDie \/ StopMid \/ ConsumerDie \/ StopEnd

SpecPipe == Init /\ [][NextPipe]_vars

\* The service with INITIAL_BUFFER_MINUTES configured as 0 or left at 1.
InitInitial ==
  /\ targetSize = MaxCapacity
  /\ file = <<>>
  /\ stateRef = InitialBufferState
  /\ memRef = InitialMemState
  /\ written = 0
  /\ live = <<>>
  /\ lastOp = NoOp
  /\ SvcInitWith({0, 1})
  /\ SchedInit({"probe"})

SpecInitial == InitInitial /\ [][Next]_vars

\* --- failing file operations ---

\* A write of append to buffer.dat fails: writeFully turns the failure into
\* a defect, which no catchAll of bufferLoop handles, so the fiber ends; the
\* semaphore is released and no state is stored.
AppendWriteFails ==
  /\ ing.pc = "appending" /\ ~ing.intr
  /\ lock' = "free"
  /\ file' \in interruptedAppendFiles(file, ing.snap, IngChunk)
  /\ ing' = [ing EXCEPT !.pc = "done"]
  /\ UNCHANGED <<targetSize, stateRef, memRef, written, live, lastOp, pbState,
                 bufferFiberRef, playbackFiberRef, playerRef, player, play,
                 rebuildPc, stopPc, sink>>
  /\ NoteState

\* A read of consume from buffer.dat fails: a defect again, which ends the
\* playbackLoop fiber; runLoop's finalizer kills the player.
ConsumeReadFails ==
  /\ play.pc = "consuming" /\ ~play.intr
  /\ lock' = "free"
  /\ player' = "none" /\ playerRef' = FALSE
  /\ play' = [play EXCEPT !.pc = "done"]
  /\ UNCHANGED <<bufVars, pbState, bufferFiberRef, playbackFiberRef, ing,
                 rebuildPc, stopPc, sink>>
  /\ NoteState

\* --- bufferLoop's connect, attempt by attempt ---

\* Schedule.recurs(5) and Schedule.exponential(1 second) of the retry.
connectRecurs == 5
connectBaseSeconds == 1

\* Variant of retryContinues: one recurrence more.
retryContinuesOnceMore(recurrences) == recurrences <= connectRecurs

\* Effect.retry: whether the schedule allows another attempt after the given
\* number of recurrences.
retryContinues(recurrences) == recurrences < connectRecurs

\* Schedule.exponential: the delay before the recurrence of the given index.
exponentialDelay(recurrences) == connectBaseSeconds * 2^recurrences

\* The cycle an attempt belongs to: a new one after the last cycle ended.
Cycle == IF retry.pc \in {"failed", "connected"} THEN NewCycle(written) ELSE retry

RetryUnchanged ==
  /\ IngUnchanged
  /\ UNCHANGED <<hist, variant, initialBufferMinutes, rebuildLockRef, fiberRef,
                 rebuildFiberRef, loopPc, rb, schedStopPc, lastCall, healthVars,
                 mainVars, pace, wall>>

\* One stream.connect() fails: the retry sleeps and tries again while the
\* schedule allows; else catchAll reports, and sleeps 2 s before Stream.empty.
ConnectAttemptFails ==
  /\ ing.pc = "connect" /\ ~ing.intr /\ Cycle.pc = "attempt"
  /\ IF retryContinues(Len(Cycle.slept))
       THEN /\ retry' = [Cycle EXCEPT !.pc = "backoff", !.failed = @ + 1,
                                      !.slept = Append(@, exponentialDelay(Len(@)))]
            /\ UNCHANGED ing
       ELSE /\ retry' = [Cycle EXCEPT !.pc = "failed", !.failed = @ + 1,
                                      !.reported = TRUE]
            /\ ing' = [ing EXCEPT !.pc = "cooldown"]
  /\ RetryUnchanged

\* The sleep of the retry schedule ends: the next attempt.
BackoffEnds ==
  /\ ing.pc = "connect" /\ ~ing.intr /\ retry.pc = "backoff"
  /\ retry' = [retry EXCEPT !.pc = "attempt"]
  /\ UNCHANGED ing
  /\ RetryUnchanged

\* One stream.connect() succeeds: runForEach reads the stream.
ConnectAttemptOk ==
  /\ ing.pc = "connect" /\ ~ing.intr /\ Cycle.pc = "attempt"
  /\ retry' = [Cycle EXCEPT !.pc = "connected"]
  /\ ing' = [ing EXCEPT !.pc = "read"]
  /\ RetryUnchanged

\* The ingestion loop with its connect attempts, and stop().
NextConnect ==
  \/ Start
  \/ ConnectAttemptFails \/ BackoffEnds \/ ConnectAttemptOk
  \/ Cooldown \/ StreamEnd \/ ReadFail \/ Receive \/ AppendEnd
  \/ StopBegin \/ IngesterDie

SpecConnect == Init /\ [][NextConnect]_vars

\* --- runLoop's pacing ---

MaxClock == 600

chunkDurationMs == 100
pausedSleepMs == 100
lowSleepMs == 500

\* How long after the end of its sleep a tick reads the clock (a sleep ends
\* no earlier than asked), and how long consume and the write take, in ms.
Lateness == {0, 7, 120}
TickDurations == {0, 30, 100, 130, 250}

\* Variant of nextWrite: the anchor moves on by one chunk, unclamped.
nextWriteUnclamped(anchor, now) == anchor + chunkDurationMs

\* nextWriteAt = Math.max(nextWriteAt + chunkDurationMs, now).
nextWrite(anchor, now) == Max(anchor + chunkDurationMs, now)

\* if (sleepMs > 0) sleep(sleepMs): the time slept.
sleeps(sleepMs) == IF sleepMs > 0 THEN sleepMs ELSE 0

LastThree(w) == IF Len(w) > 3 THEN SubSeq(w, Len(w) - 2, Len(w)) ELSE w

PaceUnchanged ==
  UNCHANGED <<bufVars, svcVars, variant, initialBufferMinutes, rebuildLockRef,
              fiberRef, rebuildFiberRef, loopPc, rb, schedStopPc, lastCall,
              healthVars, mainVars, retry, wall>>

\* A tick that finds the state playing or buffering and a chunk in the buffer:
\* the anchor is set when there is none or the state was buffering; consume
\* and the write take their time; then the next instant and the sleep.
PaceWriteTick ==
  \E late \in Lateness, took \in TickDurations, buffering \in BOOLEAN :
    LET top == pace.now + pace.slept + late
        anchor == IF buffering \/ ~pace.anchored THEN top ELSE pace.nextWriteAt
        now == top + took
        next == nextWrite(anchor, now)
    IN /\ now <= MaxClock
       /\ pace' = [kind |-> "write", now |-> now, anchored |-> TRUE,
                   anchor |-> anchor, nextWriteAt |-> next,
                   sleepMs |-> next - now, slept |-> sleeps(next - now),
                   writes |-> LastThree(Append(pace.writes, now))]
       /\ PaceUnchanged

\* A tick that finds the state paused (sleeps 100 ms) or fewer bytes than a
\* chunk (sleeps 500 ms): nextWriteAt = null.
PaceIdleTick ==
  \E late \in Lateness, kind \in {"paused", "low"} :
    LET top == pace.now + pace.slept + late
        sleepMs == IF kind = "paused" THEN pausedSleepMs ELSE lowSleepMs
    IN /\ top <= MaxClock
       /\ pace' = [kind |-> kind, now |-> top, anchored |-> FALSE,
                   anchor |-> 0, nextWriteAt |-> 0,
                   sleepMs |-> sleepMs, slept |-> sleepMs,
                   writes |-> pace.writes]
       /\ PaceUnchanged

SpecPacing == Init /\ [][PaceWriteTick \/ PaceIdleTick]_vars

\* The service with file operations that may fail.
NextFaults == Next \/ AppendWriteFails \/ ConsumeReadFails

SpecFaults == Init /\ [][NextFaults]_vars

\* The steps each loop takes by itself once a sleep, a file operation or a
\* wait for the semaphore is over, and the service without file failures and
\* without stop() under a scheduler that runs them.
IngesterStep == Cooldown \/ AppendAcquire \/ AppendEnd

ConsumerStep == OuterWake \/ LoopWake \/ ConsumeAcquire \/ ConsumeEnd \/ FlushDone

PipeFairness == WF_vars(IngesterStep) /\ WF_vars(ConsumerStep)

SpecPipeFair == Init /\ [][NextPipe]_vars /\ PipeFairness

Spec == Init /\ [][Next]_vars

----------------------------------------------------------------------------
\* SchedulerService: the scheduling loop, rebuildNow, performRebuild and stop,
\* in its three versions.  In the probe and plain versions rebuildNow forks
\* the rebuild as a daemon fiber; in the inline version the caller runs it.

\* A rebuild that was forked or begun and has not ended.
InFlight(i) == rb[i].pc \notin {"unborn", "done"}

\* A rebuild that is running performRebuild.
Executing(i) == rb[i].pc \in {"probe", "clearWait", "refill"}

\* The fiber a new rebuild gets: the first slot with no rebuild in flight.
NextRebuildId ==
  CHOOSE j \in RebuildIds :
    ~InFlight(j) /\ \A k \in RebuildIds : ~InFlight(k) => j <= k

\* Whether the scheduling loop fiber (and a rebuild it runs inline) has been
\* interrupted by stop().
LoopInterrupted == schedStopPc # "idle" /\ loopPc \notin {"none", "done"}

\* Whether the fiber that runs rebuild i may take a step.
RebuildRuns(i) ==
  /\ ~rb[i].intr
  /\ rb[i].owner = "loop" => ~LoopInterrupted

SchedUnchanged == UNCHANGED <<targetSize, file, memRef, written, lastOp,
                              bufferFiberRef, playbackFiberRef, playerRef, player,
                              lock, ing, play, rebuildPc, stopPc, sink, variant,
                              initialBufferMinutes,
                              healthVars, mainVars, retry, pace, wall>>

SchedNote == hist' = Hist(hist, pbState, pbState')

acquiresAlways(locked) == TRUE

\* rebuildNow's test-and-set of the lock: whether it acquired.
acquires(locked) == ~locked

ClearWithoutPause(i, owner) ==
  /\ pbState' = pbState
  /\ IF clearMustWait(lock)
       THEN /\ rb' = [rb EXCEPT ![i] = [pc |-> "clearWait", owner |-> owner,
                                       intr |-> FALSE]]
            /\ UNCHANGED <<stateRef, live>>
       ELSE /\ rb' = [rb EXCEPT ![i] = [pc |-> "refill", owner |-> owner,
                                       intr |-> FALSE]]
            /\ stateRef' = clear /\ live' = <<>>

\* performRebuild: playback.pause(), buffer.clear() and the start of the wait.
PauseAndClear(i, owner) ==
  /\ pbState' = pause(pbState)
  /\ IF clearMustWait(lock)
       THEN /\ rb' = [rb EXCEPT ![i] = [pc |-> "clearWait", owner |-> owner,
                                       intr |-> FALSE]]
            /\ UNCHANGED <<stateRef, live>>
       ELSE /\ rb' = [rb EXCEPT ![i] = [pc |-> "refill", owner |-> owner,
                                       intr |-> FALSE]]
            /\ stateRef' = clear /\ live' = <<>>

\* The finalizers of a rebuild: the lock is released; a daemon rebuild clears
\* rebuildFiberRef; the loop that ran the rebuild inline goes on to sleep.
ReleaseBy(i) ==
  /\ rebuildLockRef' = FALSE
  /\ rebuildFiberRef' = IF rb[i].owner = "daemon" THEN 0 ELSE rebuildFiberRef
  /\ loopPc' = IF rb[i].owner = "loop" /\ loopPc = "rebuilding" THEN "sleep"
               ELSE loopPc

\* rebuildNow(), called by the scheduling loop or by a manual trigger.
RebuildNow(caller) ==
  /\ acquires(rebuildLockRef) => \E j \in RebuildIds : ~InFlight(j)
  /\ lastCall' = [result |-> IF acquires(rebuildLockRef) THEN "true" ELSE "false",
                  inFlight |-> \E j \in RebuildIds : InFlight(j)]
  /\ IF ~acquires(rebuildLockRef)
       THEN UNCHANGED <<rebuildLockRef, rebuildFiberRef, loopPc, rb, pbState,
                        stateRef, live>>
       ELSE /\ rebuildLockRef' = TRUE
            /\ IF variant = "inline"
                 THEN /\ PauseAndClear(NextRebuildId, caller)
                      /\ loopPc' = IF caller = "loop" THEN "rebuilding" ELSE loopPc
                      /\ UNCHANGED rebuildFiberRef
                 ELSE /\ rb' = [rb EXCEPT ![NextRebuildId] =
                                  [pc |-> "forked", owner |-> "daemon",
                                   intr |-> FALSE]]
                      /\ rebuildFiberRef' = NextRebuildId
                      /\ UNCHANGED <<loopPc, pbState, stateRef, live>>
  /\ UNCHANGED <<fiberRef, schedStopPc>>
  /\ SchedUnchanged /\ SchedNote

\* start(): forks the scheduling loop, which goes to sleep until the hour.
SchedStart ==
  /\ ~fiberRef /\ loopPc = "none" /\ schedStopPc = "idle"
  /\ ing.pc # "none"
  /\ fiberRef' = TRUE
  /\ loopPc' = "sleep"
  /\ UNCHANGED <<rebuildLockRef, rebuildFiberRef, rb, schedStopPc, lastCall,
                 pbState, stateRef, live, hist>>
  /\ SchedUnchanged

\* The loop's sleep ends at the rebuild hour.
Trigger ==
  /\ loopPc = "sleep" /\ ~LoopInterrupted
  /\ RebuildNow("loop")

\* A manual trigger.
ManualRebuildNow == RebuildNow("manual")

\* A forked rebuild fiber begins performRebuild.
RebuildStart ==
  \E i \in RebuildIds :
    /\ rb[i].pc = "forked" /\ RebuildRuns(i)
    /\ IF variant = "probe"
         THEN /\ rb' = [rb EXCEPT ![i].pc = "probe"]
              /\ UNCHANGED <<pbState, stateRef, live>>
         ELSE PauseAndClear(i, "daemon")
    /\ UNCHANGED <<rebuildLockRef, fiberRef, rebuildFiberRef, loopPc, schedStopPc,
                   lastCall>>
    /\ SchedUnchanged /\ SchedNote

\* ensureStreamAvailable got a chunk.
ProbeOk ==
  \E i \in RebuildIds :
    /\ rb[i].pc = "probe" /\ RebuildRuns(i)
    /\ PauseAndClear(i, rb[i].owner)
    /\ UNCHANGED <<rebuildLockRef, fiberRef, rebuildFiberRef, loopPc, schedStopPc,
                   lastCall>>
    /\ SchedUnchanged /\ SchedNote

ProbeFailAfterClear ==
  \E i \in RebuildIds :
    /\ rb[i].pc = "probe" /\ RebuildRuns(i)
    /\ ~clearMustWait(lock)
    /\ pbState' = pause(pbState)
    /\ stateRef' = clear /\ live' = <<>>
    /\ rb' = [rb EXCEPT ![i].pc = "done"]
    /\ ReleaseBy(i)
    /\ UNCHANGED <<fiberRef, schedStopPc, lastCall>>
    /\ SchedUnchanged /\ SchedNote

\* ensureStreamAvailable failed (connect error, no chunk, or 10 s timeout):
\* performRebuild returns.
ProbeFail ==
  \E i \in RebuildIds :
    /\ rb[i].pc = "probe" /\ RebuildRuns(i)
    /\ rb' = [rb EXCEPT ![i].pc = "done"]
    /\ ReleaseBy(i)
    /\ UNCHANGED <<fiberRef, schedStopPc, lastCall, pbState, stateRef, live, hist>>
    /\ SchedUnchanged

\* buffer.clear() gets the semaphore it waited for.
RebuildClearAcquire ==
  \E i \in RebuildIds :
    /\ rb[i].pc = "clearWait" /\ RebuildRuns(i)
    /\ ~mustWait(lock)
    /\ stateRef' = clear /\ live' = <<>>
    /\ rb' = [rb EXCEPT ![i].pc = "refill"]
    /\ UNCHANGED <<rebuildLockRef, fiberRef, rebuildFiberRef, loopPc, schedStopPc,
                   lastCall, pbState, hist>>
    /\ SchedUnchanged

\* waitForTarget finds the buffer at target size: resume, and the rebuild ends.
RefillDone ==
  \E i \in RebuildIds :
    /\ rb[i].pc = "refill" /\ RebuildRuns(i)
    /\ targetSize <= 0 \/ stateRef.totalSize >= targetSize
    /\ pbState' = resume(pbState)
    /\ rb' = [rb EXCEPT ![i].pc = "done"]
    /\ ReleaseBy(i)
    /\ UNCHANGED <<fiberRef, schedStopPc, lastCall, stateRef, live>>
    /\ SchedUnchanged /\ SchedNote

\* The refill timeout (probe version only) wins the race: resume with a
\* partial buffer, and the rebuild ends.
RefillTimeout ==
  \E i \in RebuildIds :
    /\ rb[i].pc = "refill" /\ RebuildRuns(i)
    /\ variant = "probe"
    /\ pbState' = resume(pbState)
    /\ rb' = [rb EXCEPT ![i].pc = "done"]
    /\ ReleaseBy(i)
    /\ UNCHANGED <<fiberRef, schedStopPc, lastCall, stateRef, live>>
    /\ SchedUnchanged /\ SchedNote

\* stop(): interrupts the scheduling loop fiber, if it holds one.
SchedStopBegin ==
  /\ schedStopPc = "idle"
  /\ schedStopPc' = "awaitLoop"
  /\ UNCHANGED <<rebuildLockRef, fiberRef, rebuildFiberRef, loopPc, rb, lastCall,
                 pbState, stateRef, live, hist>>
  /\ SchedUnchanged

\* The interrupted loop fiber ends; a rebuild it was running inline ends with
\* it, and its finalizer releases the lock.
LoopDie ==
  /\ LoopInterrupted
  /\ loopPc' = "done"
  /\ rb' = [i \in RebuildIds |->
              IF rb[i].owner = "loop" /\ InFlight(i)
                THEN [rb[i] EXCEPT !.pc = "done"] ELSE rb[i]]
  /\ rebuildLockRef' = IF \E i \in RebuildIds : rb[i].owner = "loop" /\ InFlight(i)
                         THEN FALSE ELSE rebuildLockRef
  /\ UNCHANGED <<fiberRef, rebuildFiberRef, schedStopPc, lastCall, pbState,
                 stateRef, live, hist>>
  /\ SchedUnchanged

\* stop(): the loop fiber is gone.  The inline version is done; the others
\* interrupt the rebuild fiber in rebuildFiberRef, or release the lock at once.
SchedStopMid ==
  /\ schedStopPc = "awaitLoop" /\ loopPc \in {"none", "done"}
  /\ fiberRef' = FALSE
  /\ IF variant = "inline"
       THEN /\ schedStopPc' = "done"
            /\ UNCHANGED <<rebuildLockRef, rb>>
       ELSE IF rebuildFiberRef # 0
         THEN /\ rb' = [rb EXCEPT ![rebuildFiberRef].intr = TRUE]
              /\ schedStopPc' = "awaitRebuild"
              /\ UNCHANGED rebuildLockRef
         ELSE /\ rebuildLockRef' = FALSE
              /\ schedStopPc' = "done"
              /\ UNCHANGED rb
  /\ UNCHANGED <<rebuildFiberRef, loopPc, lastCall, pbState, stateRef, live, hist>>
  /\ SchedUnchanged

\* The interrupted rebuild fiber ends.  Its finalizers run unless it was
\* interrupted before it began.
RebuildDie ==
  \E i \in RebuildIds :
    /\ rb[i].intr /\ InFlight(i)
    /\ rb' = [rb EXCEPT ![i].pc = "done"]
    /\ IF rb[i].pc = "forked"
         THEN UNCHANGED <<rebuildLockRef, rebuildFiberRef>>
         ELSE rebuildLockRef' = FALSE /\ rebuildFiberRef' = 0
    /\ UNCHANGED <<fiberRef, loopPc, schedStopPc, lastCall, pbState, stateRef,
                   live, hist>>
    /\ SchedUnchanged

\* stop(): the rebuild fiber is gone; clears rebuildFiberRef and the lock.
SchedStopEnd ==
  /\ schedStopPc = "awaitRebuild"
  /\ \A i \in RebuildIds : rb[i].intr => ~InFlight(i)
  /\ rebuildFiberRef' = 0
  /\ rebuildLockRef' = FALSE
  /\ schedStopPc' = "done"
  /\ UNCHANGED <<fiberRef, loopPc, rb, lastCall, pbState, stateRef, live, hist>>
  /\ SchedUnchanged

InitSched(variants) ==
  /\ targetSize = MaxCapacity
  /\ file = <<>>
  /\ stateRef = InitialBufferState
  /\ memRef = InitialMemState
  /\ written = 0
  /\ live = <<>>
  /\ lastOp = NoOp
  /\ SvcInit
  /\ SchedInit(variants)

\* The running system: ingestion, playback, the scheduling loop, manual
\* triggers and the rebuilds.
NextSchedRun ==
  \/ Start
  \/ ConnectOk \/ Receive \/ AppendAcquire \/ AppendEnd
  \/ InitialPoll \/ OuterWake \/ LoopWake \/ ConsumeAcquire \/ ConsumeEnd
  \/ FlushDone
  \/ SchedStart \/ Trigger \/ ManualRebuildNow
  \/ RebuildStart \/ ProbeOk \/ ProbeFail \/ RebuildClearAcquire
  \/ RefillDone \/ RefillTimeout

NextSched ==
  \/ Start
  \/ ConnectOk \/ Receive \/ AppendEnd
  \/ SchedStart \/ Trigger \/ ManualRebuildNow
  \/ RebuildStart \/ ProbeOk \/ ProbeFail \/ RebuildClearAcquire
  \/ RefillDone \/ RefillTimeout
  \/ SchedStopBegin \/ LoopDie \/ SchedStopMid \/ RebuildDie \/ SchedStopEnd

SpecSchedRun == InitSched({"probe", "plain"}) /\ [][NextSchedRun]_vars

SpecSched == InitSched({"probe", "plain", "inline"}) /\ [][NextSched]_vars

\* What the scheduling of the running system guarantees: fibers that can run
\* do run, timers fire, the probe ends within its 10 s timeout, a holder of the
\* buffer's semaphore releases it and its waiters are served in turn.  Nothing
\* makes the Source deliver: ConnectOk and Receive carry no fairness.
SchedFairness ==
  /\ WF_vars(RebuildStart)
  /\ WF_vars(ProbeOk \/ ProbeFail)
  /\ WF_vars(AppendEnd) /\ WF_vars(ConsumeEnd)
  /\ SF_vars(RebuildClearAcquire)
  /\ WF_vars(RefillDone)
  /\ WF_vars(RefillTimeout)

SpecSchedFair ==
  InitSched({"probe", "plain"}) /\ [][NextSchedRun]_vars /\ SchedFairness

SpecProbeFair ==
  InitSched({"probe"}) /\ [][NextSchedRun]_vars /\ SchedFairness

----------------------------------------------------------------------------
\* nextHourInfo: the delay to the next rebuild.  Times are minutes; a Date is
\* the minutes since 00:00 UTC of day 0, and the local time of a Date is what
\* getHours/getDate read and setHours/setDate write.

MaxDays == 4

Days(n) == n * 1440
Hours(n) == n * 60

\* The host's time zone: a fixed offset, or one whose offset changes once, at
\* 01:00 UTC of day 2: forward (02:00 local becomes 03:00) or back (03:00
\* local becomes 02:00).
Zones == {"fixed", "forward", "back"}
Transition == Days(2) + Hours(1)
offsetBefore(zone) == IF zone = "back" THEN Hours(2) ELSE Hours(1)
offsetAfter(zone) == IF zone = "forward" THEN Hours(2) ELSE Hours(1)

\* The local time of a Date.
LocalTime(zone, t) ==
  t + (IF t < Transition THEN offsetBefore(zone) ELSE offsetAfter(zone))

\* The Date of a local time: a local time that occurs twice or not at all is
\* read with the offset before the transition.
UTC(zone, local) ==
  LET before == local - offsetBefore(zone)
      after == local - offsetAfter(zone)
  IN IF before < Transition \/ after < Transition THEN before ELSE after

\* target.setHours(hour, 0, 0, 0).
setHours(zone, t, hour) ==
  UTC(zone, Days(LocalTime(zone, t) \div 1440) + Hours(hour))

\* target.setDate(target.getDate() + 1).
setDateNextDay(zone, t) ==
  UTC(zone, Days(LocalTime(zone, t) \div 1440 + 1) + (LocalTime(zone, t) % 1440))

\* if (target <= now).
targetIsPast(target, now) == target <= now

\* nextHourInfo(hour) called at now: the Date of the next rebuild.
nextHourTarget(zone, hour, now) ==
  LET target == setHours(zone, now, hour)
  IN IF targetIsPast(target, now) THEN setDateNextDay(zone, target) ELSE target

\* nextHourInfo(hour) called at now: [ms, at], ms in minutes.
nextHourInfo(zone, hour, now) ==
  LET ms == nextHourTarget(zone, hour, now) - now
  IN [ms |-> ms, at |-> now + ms]

WallUnchanged ==
  UNCHANGED <<bufVars, svcVars, variant, initialBufferMinutes, rebuildLockRef,
              fiberRef, rebuildFiberRef, loopPc, rb, schedStopPc, lastCall,
              healthVars, mainVars, retry, pace>>

\* The scheduling loop (or getNextRebuildTime) calls nextHourInfo.
CallNextHourInfo ==
  /\ ~wall.called
  /\ wall' = [wall EXCEPT !.called = TRUE,
                          !.ms = nextHourInfo(wall.zone, wall.hour, wall.now).ms,
                          !.at = nextHourInfo(wall.zone, wall.hour, wall.now).at]
  /\ WallUnchanged

\* The loop's sleep of ms ends and the trigger fires: the next iteration.
SleepEnds ==
  /\ wall.called /\ wall.ms > 0
  /\ wall.now + wall.ms <= Days(MaxDays)
  /\ wall' = [wall EXCEPT !.called = FALSE, !.now = wall.now + wall.ms]
  /\ WallUnchanged

\* The instants at which the scheduler may be started: any half hour of
\* days 0 and 1, and the minute after.
StartTimes ==
  {t \in 0..Days(2) : t % 30 \in {0, 1}}

InitNextHour ==
  /\ targetSize = MaxCapacity
  /\ file = <<>>
  /\ stateRef = InitialBufferState
  /\ memRef = InitialMemState
  /\ written = 0
  /\ live = <<>>
  /\ lastOp = NoOp
  /\ SvcInit
  /\ SchedInitAt({"probe"}, {WallAt(z, h, t) : z \in Zones, h \in 0..23, t \in StartTimes})

SpecNextHour == InitNextHour /\ [][CallNextHourInfo \/ SleepEnds]_vars

----------------------------------------------------------------------------
\* HealthService: the buffer thresholds

\* The percentages a sample can carry (BufferService.getHealth: 0 to 100).
Percentages == {10, 15, 19, 20, 50, 79, 80, 85}

ArmAt == 80
AlertBelow == 20

thresholdActionAlertsCold(armed, percentage) ==
  IF percentage >= ArmAt
    THEN IF ~armed THEN "armed" ELSE "noop"
    ELSE IF percentage < AlertBelow THEN "alert" ELSE "noop"

\* Variant of thresholdAction: every evaluation at or above ArmAt reports armed.
thresholdActionRearms(armed, percentage) ==
  IF percentage >= ArmAt
    THEN "armed"
    ELSE IF armed /\ percentage < AlertBelow THEN "alert" ELSE "noop"

\* updateThresholds: what Ref.modify returns.
thresholdAction(armed, percentage) ==
  IF percentage >= ArmAt
    THEN IF ~armed THEN "armed" ELSE "noop"
    ELSE IF armed /\ percentage < AlertBelow THEN "alert" ELSE "noop"

\* updateThresholds: what Ref.modify stores.
thresholdNext(threshold, percentage) ==
  IF percentage >= ArmAt
    THEN IF ~threshold.armed THEN [armed |-> TRUE] ELSE threshold
    ELSE IF threshold.armed /\ percentage < AlertBelow THEN [armed |-> FALSE]
         ELSE threshold

HealthUnchanged ==
  UNCHANGED <<bufVars, svcVars, variant, initialBufferMinutes, rebuildLockRef, fiberRef,
              rebuildFiberRef, loopPc, rb, schedStopPc, lastCall, mainVars, retry, pace, wall>>

\* updateThresholds(health, state, nextRebuild), called by the monitor loop
\* or by a request: the Ref.modify and the reports that follow it.
UpdateThresholds ==
  \E percentage \in Percentages :
    /\ Len(samples) < MaxSamples
    /\ samples' = Append(samples, percentage)
    /\ thresholdRef' = thresholdNext(thresholdRef, percentage)
    /\ events' = IF thresholdAction(thresholdRef.armed, percentage) = "noop"
                   THEN events
                   ELSE Append(events, thresholdAction(thresholdRef.armed, percentage))
    /\ UNCHANGED <<lastHealth, evaluating, response, serverRef, monitorRef, monitorPc,
                   healthStopPc>>
    /\ HealthUnchanged

SpecHealth == InitSched({"probe"}) /\ [][UpdateThresholds]_vars

\* getHealth run by several fibers at once (the monitor loop and requests
\* being answered): a fiber reads the buffer's health, and may be overtaken by
\* the others before its updateThresholds runs Ref.modify.
EvaluatorsUnchanged ==
  UNCHANGED <<lastHealth, response, serverRef, monitorRef, monitorPc, healthStopPc>>

\* getHealth: buffer.getHealth() returns a percentage to the fiber.
ReadHealth ==
  \E e \in Evaluators, percentage \in Percentages :
    /\ ~evaluating[e].sampled
    /\ Len(samples) + Cardinality({f \in Evaluators : evaluating[f].sampled})
         < MaxSamples
    /\ evaluating' = [evaluating EXCEPT ![e] = [sampled |-> TRUE,
                                                 percentage |-> percentage]]
    /\ UNCHANGED <<thresholdRef, samples, events>>
    /\ EvaluatorsUnchanged
    /\ HealthUnchanged

\* updateThresholds of a fiber that has read the health: the Ref.modify, which
\* is one step, and the report of what it returned.
ModifyThreshold ==
  \E e \in Evaluators :
    /\ evaluating[e].sampled
    /\ LET percentage == evaluating[e].percentage
       IN /\ samples' = Append(samples, percentage)
          /\ thresholdRef' = thresholdNext(thresholdRef, percentage)
          /\ events' = IF thresholdAction(thresholdRef.armed, percentage) = "noop"
                         THEN events
                         ELSE Append(events,
                                     thresholdAction(thresholdRef.armed, percentage))
    /\ evaluating' = [evaluating EXCEPT ![e] = NotSampled]
    /\ EvaluatorsUnchanged
    /\ HealthUnchanged

SpecEvaluators == InitSched({"probe"}) /\ [][ReadHealth \/ ModifyThreshold]_vars

----------------------------------------------------------------------------
\* HealthService start and stop, and the shutdown of index.ts

\* start(): serves, and forks the monitor loop.
HealthStart ==
  /\ ~serverRef /\ healthStopPc = "idle"
  /\ serverRef' = TRUE
  /\ monitorRef' = TRUE
  /\ monitorPc' = IF monitorRef THEN monitorPc ELSE "running"
  /\ UNCHANGED <<thresholdRef, samples, events, lastHealth, evaluating, response, healthStopPc>>
  /\ HealthUnchanged

\* stop(): stops the server and interrupts the monitor fiber, if it holds one.
HealthStopBegin ==
  /\ healthStopPc = "idle"
  /\ serverRef' = FALSE
  /\ healthStopPc' = IF monitorRef THEN "awaitMonitor" ELSE "done"
  /\ UNCHANGED <<thresholdRef, samples, events, lastHealth, evaluating, response, monitorRef, monitorPc>>
  /\ HealthUnchanged

\* The interrupted monitor fiber ends.
MonitorDie ==
  /\ healthStopPc = "awaitMonitor" /\ monitorPc = "running"
  /\ monitorPc' = "done"
  /\ UNCHANGED <<thresholdRef, samples, events, lastHealth, evaluating, response, serverRef, monitorRef, healthStopPc>>
  /\ HealthUnchanged

\* stop(): the monitor fiber is gone.
HealthStopEnd ==
  /\ healthStopPc = "awaitMonitor" /\ monitorPc = "done"
  /\ monitorRef' = FALSE
  /\ healthStopPc' = "done"
  /\ UNCHANGED <<thresholdRef, samples, events, lastHealth, evaluating, response, serverRef, monitorPc>>
  /\ HealthUnchanged

MainUnchanged ==
  UNCHANGED <<bufVars, svcVars, variant, initialBufferMinutes, rebuildLockRef, fiberRef,
              rebuildFiberRef, loopPc, rb, schedStopPc, lastCall, healthVars, retry, pace, wall>>

sequenceSkippedNever(flag) == FALSE

\* handleShutdown: `if (shuttingDown) return`.
sequenceSkipped(flag) == flag

\* handleShutdown, on SIGINT, SIGTERM or (newer index) a fatal error.  The
\* first call starts the shutdown sequence.
HandleShutdown ==
  /\ shutdownPc # "exited"
  /\ signals' = IF signals = "none" THEN "one" ELSE "repeated"
  /\ IF sequenceSkipped(shuttingDown)
       THEN UNCHANGED <<shuttingDown, shutdownPc, shutdownRuns>>
       ELSE /\ shuttingDown' = TRUE
            /\ shutdownPc' = "running"
            /\ shutdownRuns' = shutdownRuns + 1
  /\ MainUnchanged

\* playback.stop() on a service that was never started: nothing to interrupt.
StopUnstarted ==
  /\ stopPc = "idle" /\ ing.pc = "none"
  /\ pbState' = "stopped"
  /\ stopPc' = "done"
  /\ UNCHANGED <<bufVars, bufferFiberRef, playbackFiberRef, playerRef, player,
                 lock, ing, play, rebuildPc, sink>>
  /\ NoteState

\* shutdown: yield* playback.stop()
ShutPlaybackStop == shutdownPc = "running" /\ (StopBegin \/ StopUnstarted)

\* shutdown: yield* scheduler.stop()
ShutSchedulerStop == shutdownPc = "running" /\ stopPc = "done" /\ SchedStopBegin

\* shutdown: yield* health.stop()
ShutHealthStop == shutdownPc = "running" /\ schedStopPc = "done" /\ HealthStopBegin

\* shutdown: yield* flushSentry()
ShutFlush ==
  /\ shutdownPc = "running" /\ healthStopPc = "done"
  /\ shutdownPc' = "flush"
  /\ UNCHANGED <<shuttingDown, signals, shutdownRuns>>
  /\ MainUnchanged

\* The flush ended (within its 2 s timeout): dispose and process.exit.
ShutExit ==
  /\ shutdownPc = "flush"
  /\ shutdownPc' = "exited"
  /\ UNCHANGED <<shuttingDown, signals, shutdownRuns>>
  /\ MainUnchanged

\* program: yield* playback.start(), after health.start()
BootPlayback == serverRef /\ Start

\* program: yield* scheduler.start(), after playback.start()
BootScheduler == serverRef /\ SchedStart

\* The Source delivers a chunk, while it has delivered less than MaxDelivered.
Deliver == written < MaxDelivered /\ Receive

\* The program from boot to exit: the three services, the signals and the
\* shutdown sequence.
NextMain ==
  \/ HealthStart \/ BootPlayback \/ BootScheduler
  \/ ConnectOk \/ Deliver \/ AppendEnd
  \/ InitialPoll \/ LoopWake \/ ConsumeEnd \/ FlushDone
  \/ Trigger
  \/ RebuildStart \/ ProbeOk \/ ProbeFail \/ RebuildClearAcquire
  \/ RefillDone \/ RefillTimeout
  \/ HandleShutdown
  \/ ShutPlaybackStop \/ IngesterDie \/ StopMid \/ ConsumerDie \/ StopEnd
  \/ ShutSchedulerStop \/ LoopDie \/ SchedStopMid \/ RebuildDie \/ SchedStopEnd
  \/ ShutHealthStop \/ MonitorDie \/ HealthStopEnd
  \/ ShutFlush \/ ShutExit

\* The steps of the shutdown fiber and of the fibers it interrupted.
ShutdownStep ==
  \/ ShutPlaybackStop \/ IngesterDie \/ StopMid \/ ConsumerDie \/ StopEnd
  \/ ShutSchedulerStop \/ LoopDie \/ SchedStopMid \/ RebuildDie \/ SchedStopEnd
  \/ ShutHealthStop \/ MonitorDie \/ HealthStopEnd
  \/ ShutFlush \/ ShutExit

\* The runtime runs a fiber that can run: while the shutdown fiber or a fiber
\* it interrupted can take a step, one of them does; the flush ends within
\* its timeout.
MainFairness == WF_vars(ShutdownStep)

SpecMain == InitSched({"probe"}) /\ [][NextMain]_vars /\ MainFairness

----------------------------------------------------------------------------
\* The health report: buffer.getHealth(), the HealthService query, the
\* monitor loop and the HTTP handler.  A percentage is held in hundredths
\* (50.00 is 5000), which is what Math.round(percentage * 100) / 100 keeps.

\* AppConfig.BitrateKBps
bitrateKBps == 24

\* Math.round(n / d) for n >= 0 and d > 0: halves round up.
RoundDiv(n, d) == (n \div d) + (IF 2 * (n % d) >= d THEN 1 ELSE 0)

\* n * 10^k / d as whole part and remainder, a digit at a time.
RECURSIVE ScaledDiv(_, _, _)
ScaledDiv(n, d, k) ==
  IF k = 0 THEN [q |-> n \div d, r |-> n % d]
  ELSE LET p == ScaledDiv(n, d, k - 1)
       IN [q |-> p.q * 10 + (p.r * 10) \div d, r |-> (p.r * 10) % d]

\* getHealth: the percentage it reports, rounded to two decimals.
reportedPercentage(currentSize, target) ==
  IF target > 0
    THEN IF currentSize >= target THEN 10000
         ELSE LET p == ScaledDiv(currentSize, target, 4)
              IN p.q + (IF 2 * p.r >= target THEN 1 ELSE 0)
    ELSE 0

\* getHealth: isHealthy, which compares the percentage before it is rounded.
isHealthy(currentSize, target) == target > 0 /\ 5 * currentSize >= 4 * target

\* Variant of durationMinutes: the division by 60 is left out.
durationMinutesInSeconds(currentSize) == RoundDiv(currentSize, bitrateKBps * 1024)

\* getHealth: durationMinutes.
durationMinutes(currentSize) == RoundDiv(currentSize, bitrateKBps * 1024 * 60)

\* buffer.getHealth() (the in-memory variant computes the same for a
\* targetSize above 0).
getHealth(state) ==
  [currentSize |-> state.totalSize,
   targetSize |-> targetSize,
   percentage |-> reportedPercentage(state.totalSize, targetSize),
   durationMinutes |-> durationMinutes(state.totalSize),
   isHealthy |-> isHealthy(state.totalSize, targetSize),
   taken |-> TRUE]

\* Variant of healthStatus: never degraded.
healthStatusNeverDegraded(health) ==
  IF health.isHealthy THEN "healthy" ELSE "unhealthy"

\* HealthService getHealth: the status it reports.
healthStatus(health) ==
  IF health.isHealthy THEN "healthy"
  ELSE IF health.percentage >= 3000 THEN "degraded"
  ELSE "unhealthy"

\* The fetch handler: the HTTP status of its answer to a query.
httpCode(status) == IF status = "unhealthy" THEN 503 ELSE 200

\* HealthService getHealth: reads the buffer, the playback state and the next
\* rebuild time, and calls updateThresholds.
Sampled ==
  LET health == getHealth(stateRef)
      percentage == health.percentage \div 100
  IN /\ lastHealth' = health
     /\ UNCHANGED evaluating
     /\ samples' = Append(samples, percentage)
     /\ thresholdRef' = thresholdNext(thresholdRef, percentage)
     /\ events' = IF thresholdAction(thresholdRef.armed, percentage) = "noop"
                    THEN events
                    ELSE Append(events, thresholdAction(thresholdRef.armed, percentage))

\* Variant of MonitorSample: the sample also pauses playback.
MonitorSamplePausing ==
  /\ monitorPc = "running" /\ healthStopPc = "idle"
  /\ Len(samples) < MaxSamples
  /\ Sampled
  /\ pbState' = pause(pbState)
  /\ hist' = Hist(hist, pbState, pbState')
  /\ UNCHANGED <<response, serverRef, monitorRef, monitorPc, healthStopPc>>
  /\ UNCHANGED <<bufVars, bufferFiberRef, playbackFiberRef, playerRef, player,
                 lock, ing, play, rebuildPc, stopPc, sink, variant,
                 initialBufferMinutes, rebuildLockRef, fiberRef, rebuildFiberRef,
                 loopPc, rb, schedStopPc, lastCall, mainVars, retry, pace, wall>>

\* monitorLoop: a sample every 30 s.
MonitorSample ==
  /\ monitorPc = "running" /\ healthStopPc = "idle"
  /\ Len(samples) < MaxSamples
  /\ Sampled
  /\ UNCHANGED <<response, serverRef, monitorRef, monitorPc, healthStopPc>>
  /\ HealthUnchanged

\* The fetch handler of the server: 404 for another path; else the query,
\* answered with its status, or with 503 when the query fails.
Fetch ==
  \E pathname \in {"/", "/health", "/metrics"}, fails \in BOOLEAN :
    /\ serverRef
    /\ Len(samples) < MaxSamples
    /\ IF pathname # "/" /\ pathname # "/health"
         THEN /\ response' = [code |-> 404, status |-> "none"]
              /\ UNCHANGED <<thresholdRef, samples, events, lastHealth, evaluating>>
         ELSE IF fails
           THEN /\ response' = [code |-> 503, status |-> "failed"]
                /\ UNCHANGED <<thresholdRef, samples, events, lastHealth, evaluating>>
           ELSE /\ Sampled
                /\ response' = [code |-> httpCode(healthStatus(getHealth(stateRef))),
                                status |-> healthStatus(getHealth(stateRef))]
    /\ UNCHANGED <<serverRef, monitorRef, monitorPc, healthStopPc>>
    /\ HealthUnchanged

\* The buffer sizes the report is computed for: every capacity up to
\* MaxCapacity, a capacity of which 80 % is no whole number of bytes, and
\* 3,600,000 bytes.
HealthTargets == (0..MaxCapacity) \cup {4004, 3600000}

\* The fill levels for a capacity: all of them for a small capacity, else
\* empty, about 30 %, half, about 80 % and full.
Fills(target) ==
  IF target <= MaxCapacity THEN 0..target
  ELSE {0, (3 * target) \div 10 - 1, (3 * target) \div 10, target \div 2,
        (4 * target) \div 5,
        (4 * target) \div 5 + 1, target}

\* A buffer of some capacity filled to some level (the content of buffer.dat,
\* which the report does not read, is left out); nothing started yet.
InitQuery ==
  /\ targetSize \in HealthTargets
  /\ \E filled \in Fills(targetSize) :
       stateRef = [totalSize |-> filled, readOffset |-> 0,
                   writeOffset |-> IF targetSize > 0 THEN filled % targetSize ELSE 0]
  /\ file = <<>>
  /\ memRef = InitialMemState
  /\ written = 0
  /\ live = <<>>
  /\ lastOp = NoOp
  /\ SvcInit
  /\ SchedInit({"probe"})

\* The health server and its monitor beside playback being started, paused
\* and resumed and a rebuild being requested.
NextQuery ==
  \/ HealthStart \/ MonitorSample \/ Fetch
  \/ BootPlayback \/ Pause \/ Resume \/ ManualRebuildNow

SpecQuery == InitQuery /\ [][NextQuery]_vars


----------------------------------------------------------------------------
\* Claims about the buffer alone (checked under SpecBuffer)

\* Both variants hold exactly the reference FIFO (the disk variant always does).
DiskHoldsLive == Readable(file, stateRef) = live

\* C1: after any sequence of append, consume and clear calls,
\* 0 <= totalSize <= targetSize and both offsets lie in 0..targetSize-1 (both
\* are 0 when the capacity is 0); an append of more than the free space is
\* accepted whole, up to the capacity: the buffer is then full, holds the
\* newest bytes, has lost the oldest ones and readOffset has advanced by the
\* overflow (modulo the capacity).
C1_Bounds ==
  /\ 0 <= stateRef.totalSize /\ stateRef.totalSize <= targetSize
  /\ IF targetSize > 0
       THEN /\ 0 <= stateRef.readOffset /\ stateRef.readOffset < targetSize
            /\ 0 <= stateRef.writeOffset /\ stateRef.writeOffset < targetSize
       ELSE stateRef.readOffset = 0 /\ stateRef.writeOffset = 0
  /\ (lastOp.op = "append" /\ targetSize > 0
        /\ lastOp.pre.totalSize + lastOp.arg > targetSize)
     => /\ stateRef.totalSize = targetSize
        /\ Readable(file, stateRef)
             = Suffix(lastOp.preLive \o Chunk(written - lastOp.arg, lastOp.arg),
                      targetSize)
        /\ Readable(file, stateRef)[targetSize] = written
        /\ stateRef.readOffset = stateRef.writeOffset
        /\ lastOp.arg < targetSize
             => stateRef.readOffset
                  = (lastOp.pre.readOffset + lastOp.pre.totalSize + lastOp.arg
                       - targetSize) % targetSize

\* C1 witness: an append that wrapped and evicted, on a part-filled buffer
\* whose read offset was not 0.
C1_Witness ==
  /\ lastOp.op = "append" /\ targetSize >= 3
  /\ lastOp.arg < targetSize
  /\ lastOp.pre.readOffset > 0
  /\ lastOp.pre.totalSize + lastOp.arg > targetSize

\* C2 (disk-backed variant): after appends only, of more bytes in total than
\* the capacity, the buffer is full and holds the last targetSize bytes given.
C2_DiskSuffix ==
  (lastOp.onlyAppends /\ lastOp.op = "append" /\ written > targetSize)
    => /\ stateRef.totalSize = targetSize
       /\ Readable(file, stateRef) = Chunk(written - targetSize, targetSize)

\* C2 as claimed, of the in-memory variant as well: after appends only, of
\* more bytes in total than the capacity, each variant is full and holds the
\* last targetSize bytes given.
C2_SuffixBothVariants ==
  (lastOp.onlyAppends /\ lastOp.op = "append" /\ written > targetSize)
    => /\ stateRef.totalSize = targetSize
       /\ Readable(file, stateRef) = Chunk(written - targetSize, targetSize)
       /\ memRef.totalSize = targetSize
       /\ Mem_readable(memRef) = Chunk(written - targetSize, targetSize)

\* C3: consume(n) with n > 0 on a buffer holding bytes returns the
\* min(n, totalSize) oldest bytes held, in append order, takes exactly that
\* many off totalSize and leaves the rest readable.
C3_ConsumeOldest ==
  (lastOp.op = "consume" /\ lastOp.arg > 0 /\ lastOp.pre.totalSize > 0)
    => LET k == Min(lastOp.arg, lastOp.pre.totalSize)
       IN /\ ~lastOp.dies
          /\ lastOp.out = Bytes(subarray(lastOp.preLive, 0, k))
          /\ stateRef.totalSize = lastOp.pre.totalSize - k
          /\ Readable(file, stateRef)
               = subarray(lastOp.preLive, k, Len(lastOp.preLive))
          /\ Len(lastOp.preLive) = lastOp.pre.totalSize

\* C3 witnesses: a partial consume whose read wrapped around the end of the
\* file, and a consume of more than the buffer held.
C3_Witness ==
  /\ lastOp.op = "consume" /\ lastOp.arg > 1
  /\ lastOp.arg < lastOp.pre.totalSize
  /\ lastOp.pre.readOffset + lastOp.arg > targetSize

C3_WitnessAll ==
  /\ lastOp.op = "consume" /\ lastOp.pre.totalSize > 1
  /\ lastOp.arg > lastOp.pre.totalSize

\* C6: on an empty buffer, append(chunk) with 0 < chunk.length <= targetSize
\* followed by consume(chunk.length) returns chunk and leaves the buffer
\* empty, in both variants.
C6_RoundTrip ==
  (/\ lastOp.op = "consume"
   /\ lastOp.prevAppendOnEmpty > 0 /\ lastOp.prevAppendOnEmpty <= targetSize
   /\ lastOp.arg = lastOp.prevAppendOnEmpty)
    => LET chunk == Chunk(written - lastOp.arg, lastOp.arg)
       IN /\ ~lastOp.dies
          /\ lastOp.out = Bytes(chunk)
          /\ stateRef.totalSize = 0 /\ Readable(file, stateRef) = <<>>
          /\ lastOp.memOut = Bytes(chunk)
          /\ memRef.totalSize = 0 /\ Mem_readable(memRef) = <<>>

\* C6 witness: the round trip of a chunk that wrapped (the buffer was emptied
\* by consume, so the offsets were not 0) and of a chunk of the full capacity.
C6_Witness ==
  /\ lastOp.op = "consume"
  /\ lastOp.prevAppendOnEmpty > 1 /\ lastOp.prevAppendOnEmpty <= targetSize
  /\ lastOp.arg = lastOp.prevAppendOnEmpty
  /\ lastOp.pre.readOffset + lastOp.arg > targetSize

C6_WitnessFull ==
  /\ lastOp.op = "consume"
  /\ lastOp.prevAppendOnEmpty = targetSize /\ targetSize > 1
  /\ lastOp.arg = lastOp.prevAppendOnEmpty

\* C7: consume on an empty buffer returns null for every n (without a failed
\* read) and leaves totalSize and both offsets as they were, in both variants.
C7_ConsumeEmpty ==
  /\ (lastOp.op = "consume" /\ lastOp.pre.totalSize = 0)
       => lastOp.out = Null /\ ~lastOp.dies /\ stateRef = lastOp.pre
  /\ (lastOp.op = "consume" /\ lastOp.preMem.totalSize = 0)
       => lastOp.memOut = Null /\ memRef = lastOp.preMem

\* C7 witness: a consume of n > 0 bytes on a buffer emptied by consume, whose
\* offsets are not 0 and whose file holds old bytes.
C7_Witness ==
  /\ lastOp.op = "consume" /\ lastOp.arg > 0
  /\ lastOp.pre.totalSize = 0 /\ lastOp.pre.readOffset > 0
  /\ Len(file) > 0

\* C8: clear() leaves totalSize, readOffset and writeOffset 0, so size()
\* then returns 0, and the capacity is what it was.
C8_Clear ==
  lastOp.op = "clear"
    => /\ stateRef.totalSize = 0 /\ stateRef.readOffset = 0
       /\ stateRef.writeOffset = 0
       /\ size(stateRef) = 0
       /\ memRef.totalSize = 0 /\ Mem_readable(memRef) = <<>>
       /\ targetSize = lastOp.preTarget

\* C8 witness: a clear of a full buffer whose offsets were not 0.
C8_Witness ==
  /\ lastOp.op = "clear"
  /\ lastOp.pre.totalSize = targetSize /\ targetSize > 1
  /\ lastOp.pre.readOffset > 0 /\ lastOp.pre.writeOffset > 0

\* C35: for every sequence of append, consume and clear calls with the same
\* capacity, the in-memory and the disk-backed buffer return the same size()
\* value after the call, and a consume() returns the same result from both.
C35_SameContract ==
  /\ size(stateRef) = memRef.totalSize
  /\ lastOp.op = "consume" => lastOp.out = lastOp.memOut

\* C35, the part that holds: a consume() called while the two variants hold
\* the same number of bytes returns the same result from both and leaves the
\* same size() in both.
C35_SameWhileSameSize ==
  (lastOp.op = "consume" /\ ~lastOp.dies
     /\ lastOp.pre.totalSize = lastOp.preMem.totalSize)
    => /\ lastOp.out = lastOp.memOut
       /\ size(stateRef) = memRef.totalSize

\* C38: in the disk-backed buffer, after any sequence of append, consume and
\* clear calls, writeOffset = (readOffset + totalSize) mod targetSize; so a
\* full buffer has readOffset = writeOffset.
C38_WriteOffset ==
  targetSize > 0 =>
    /\ stateRef.writeOffset = (stateRef.readOffset + stateRef.totalSize) % targetSize
    /\ stateRef.totalSize = targetSize => stateRef.readOffset = stateRef.writeOffset
    /\ stateRef.readOffset \in 0..(targetSize - 1)
    /\ stateRef.writeOffset \in 0..(targetSize - 1)

\* C38 witness: an append that wrapped and evicted left a full buffer whose
\* offsets meet inside the file, after a consume had moved the read offset.
C38_Witness ==
  /\ lastOp.op = "append" /\ lastOp.arg > 0
  /\ stateRef.totalSize = targetSize
  /\ stateRef.readOffset = stateRef.writeOffset /\ stateRef.readOffset > 0
  /\ lastOp.pre.totalSize < targetSize
  /\ lastOp.pre.readOffset > 0

----------------------------------------------------------------------------
\* Claims about the running service

\* C4: the bytes written to the player's stdin, in write order, are bytes
\* that were appended, each at most once and in the order of their append
\* (stream bytes are numbered in that order, so the numbers strictly
\* increase), whatever the interleaving of bufferLoop, playbackLoop (with its
\* player restarts) and the rebuild's pause, clear and resume.
C4_SinkInOrder ==
  /\ \A i \in 1..Len(sink) :
       /\ sink[i] \in 1..written
       /\ ing.pc \in {"appendWait", "appending"} => sink[i] <= ing.from
  /\ \A i \in 1..(Len(sink) - 1) : sink[i] < sink[i + 1]

\* C4 witness: two chunks delivered, the second just written, with bytes
\* missing in between (evicted or cleared) and after a pause and a resume.
C4_Witness ==
  /\ Len(sink) >= 2 * bytesPerChunk
  /\ \E i \in 1..(Len(sink) - 1) : sink[i + 1] > sink[i] + 1
  /\ play.pc = "flush" /\ hist.phase = "replayed"

\* C5: append, consume and clear take effect one at a time: a call in progress
\* holds the semaphore alone and the state it read is still the stored state,
\* so no call (a clear included) has taken effect since it began; the buffer
\* holds, and consume returns, what the calls give when run one after the
\* other in the order in which they stored (the reference FIFO).
C5_Serialized ==
  /\ Readable(file, stateRef) = live
  /\ ing.pc = "appending" => lock = "ingest" /\ ing.snap = stateRef
  /\ play.pc = "consuming"
       => /\ lock = "play" /\ play.snap = stateRef
          /\ consumeOutput(file, play.snap, bytesPerChunk)
               = Bytes(subarray(live, 0, Min(bytesPerChunk, Len(live))))
  /\ lock = "free" => ing.pc # "appending" /\ play.pc # "consuming"

\* C5 witness: a clear and a consume both wait for an append in progress on
\* a buffer that holds bytes.
C5_Witness ==
  /\ ing.pc = "appending" /\ play.pc = "consumeWait" /\ rebuildPc = "clearWait"
  /\ stateRef.totalSize > 0 /\ stateRef.writeOffset > 0

\* C9: every change of the playback state is stopped -> buffering by start,
\* buffering -> playing, playing -> buffering, playing or buffering -> paused
\* by pause, paused -> buffering by resume, or any -> stopped by stop.
C9_Transitions ==
  [][pbState' # pbState =>
       \/ pbState = "stopped" /\ pbState' = "buffering" /\ Start
       \/ pbState = "buffering" /\ pbState' = "playing"
       \/ pbState = "playing" /\ pbState' = "buffering"
       \/ pbState \in {"playing", "buffering"} /\ pbState' = "paused" /\ Pause
       \/ pbState = "paused" /\ pbState' = "buffering" /\ Resume
       \/ pbState' = "stopped" /\ StopBegin]_vars

\* C9 witness: started, played (bytes reached the player), paused, and then
\* stopped from paused with stop() run to its end.
C9_Witness ==
  /\ pbState = "stopped" /\ hist.prev = "paused"
  /\ Len(sink) > 0 /\ stopPc = "done"

\* C10: from paused the state never steps to playing; resume from paused
\* stores buffering; and playing is entered only from buffering, by a step of
\* the playback loop that found at least one chunk in the buffer.
C10_ResumeBuffersFirst ==
  [][/\ pbState = "paused" => pbState' # "playing"
     /\ (Resume /\ pbState = "paused") => pbState' = "buffering"
     /\ (pbState # "playing" /\ pbState' = "playing")
          => /\ pbState = "buffering"
             /\ size(stateRef) >= bytesPerChunk
             /\ InitialPoll \/ OuterWake \/ LoopWake]_vars

\* C10 witness: playing again after a pause and a resume.
C10_Witness ==
  /\ pbState = "playing" /\ hist.phase = "replayed" /\ hist.prev = "buffering"
  /\ Len(sink) > 0

\* C11: once stop() has returned the state is stopped, and stays so (no
\* start follows), the bufferLoop and playbackLoop fibers have ended, the
\* service holds neither fiber and no player process is running, wherever
\* the loops stood when stop() was called.
C11_Stopped ==
  stopPc = "done"
    => /\ pbState = "stopped"
       /\ ing.pc = "done" /\ play.pc = "done"
       /\ ~bufferFiberRef /\ ~playbackFiberRef
       /\ player # "running"

\* C11 witness: stop() has returned after being called while playing, with
\* an append cut off in the middle of its file writes.
C11_Witness ==
  /\ stopPc = "done" /\ hist.prev = "playing"
  /\ Readable(file, stateRef) # live

\* C12: a pause() stores paused when the state is playing or buffering and
\* otherwise leaves it as it is; a resume() stores buffering when the state
\* is paused and otherwise leaves it as it is.
C12_PauseResumeFrame ==
  [][/\ Pause => pbState' = (IF pbState \in {"playing", "buffering"}
                               THEN "paused" ELSE pbState)
     /\ Resume => pbState' = (IF pbState = "paused" THEN "buffering"
                                ELSE pbState)]_vars

\* C12 witness: paused from buffering, before any byte was played.
C12_Witness ==
  /\ pbState = "paused" /\ hist.prev = "buffering"
  /\ sink = <<>> /\ play.pc = "loop"
----------------------------------------------------------------------------
\* C22: a chunk that arrives from the Source is handed to append exactly when
\* the state is not stopped (so in buffering, playing and paused alike), and
\* no append stores bytes while the state is stopped.
C22_AppendUnlessStopped ==
  [][/\ (written' > written) =>
          (IF pbState = "stopped"
             THEN UNCHANGED <<ing, lock, stateRef, file, live>>
             ELSE /\ ing'.pc \in {"appendWait", "appending"}
                  /\ ing'.from = written
                  /\ ing'.len = written' - written)
     /\ (ing.pc = "appending" /\ ing'.pc = "read") =>
          (/\ pbState # "stopped"
           /\ live' = Suffix(live \o IngChunk, targetSize))
     /\ (pbState = "stopped") => (Len(live') <= Len(live))]_vars

\* C22 witness: a chunk that arrived while paused has been appended, the
\* consumer having played before the pause.
C22_Witness ==
  /\ pbState = "paused" /\ hist.prev = "playing"
  /\ ing.pc = "read" /\ ing.len > 0 /\ ing.from + ing.len = written
  /\ Len(live) >= ing.len
  /\ Len(sink) > 0

C26_InitialWait ==
  /\ [](play.pc \in {"none", "initialWait"} =>
          /\ sink = <<>> /\ player = "none" /\ ~playerRef
          /\ lock # "play" /\ pbState \notin {"playing"})
  /\ [][(play.pc = "initialWait" /\ play'.pc \notin {"initialWait", "done"}) =>
          stateRef.totalSize >= Min(targetSize, initialBufferMinutes * bytesPerMinute)]_vars
  /\ []((initialBufferMinutes = 0 /\ play.pc = "initialWait" /\ ~play.intr) =>
          ENABLED (InitialPoll /\ play'.pc # "initialWait"))

\* C26 witness: the wait for one minute of audio has returned, the player
\* was spawned and the first chunk was played.
C26_Witness ==
  /\ initialBufferMinutes = 1
  /\ pbState = "playing" /\ hist.prev = "buffering"
  /\ player = "running" /\ Len(sink) = bytesPerChunk

\* C26 witness: with 0 minutes the player runs on a buffer that never held
\* a byte.
C26_WitnessZero ==
  /\ initialBufferMinutes = 0
  /\ player = "running" /\ play.pc = "loop"
  /\ written = 0

C23_NeverEndsOnItsOwn == (ing.pc = "done") => (stopPc # "idle")

\* What holds of the ingestion loop while no file operation fails (under
\* SpecPipeFair): after a failed connect or read it connects again.
ReconnectsAfterFailure == (ing.pc = "cooldown") ~> (ing.pc = "connect")

\* C24: the playbackLoop fiber has ended only where the state is stopped.
C24_EndsOnlyWhenStopped == (play.pc = "done") => (pbState = "stopped")

\* What holds of the outer playback loop while no file operation fails (under
\* SpecPipeFair): a player that exited is noticed, and after the cooldown a
\* player is spawned.
RespawnsAfterSinkFailure ==
  /\ (player = "exited") ~> (play.pc = "outer")
  /\ (play.pc = "outer") ~> (player = "running")

\* C39: at most one player process is alive at any time: a player that has
\* not been killed is the one playerRef holds and belongs to the run loop
\* still running, and the outer loop spawns a player only when the previous
\* one has been killed and playerRef cleared, whichever way the run loop was
\* left (stopped, player exit, failed write or flush, interruption, defect).
C39_OnePlayer ==
  /\ [](player # "none" =>
          /\ playerRef
          /\ play.pc \in {"loop", "consumeWait", "consuming", "flush"})
  /\ [][((InitialPoll \/ OuterWake) /\ player' = "running")
          => (player = "none" /\ ~playerRef)]_vars

\* C39 witness: after bytes were played the run loop was left for a restart
\* while not stopped; the player is killed, playerRef is cleared and the outer
\* loop waits out its cooldown before it spawns the next player.
C39_Witness ==
  /\ play.pc = "outer" /\ player = "none" /\ ~playerRef
  /\ pbState = "buffering" /\ hist.prev = "playing" /\ Len(sink) > 0

\* C39 witness, the path by interruption: stop() has interrupted the run loop
\* with a player running, and the player is gone before stop() returns.
C39_WitnessStop ==
  /\ stopPc = "awaitPlayback" /\ play.pc = "done"
  /\ player = "none" /\ ~playerRef /\ Len(sink) > 0

\* C32: in one connect cycle of bufferLoop a failing connect is retried at
\* most connectRecurs times (connectRecurs + 1 attempts), after delays that
\* double from connectBaseSeconds on; after the last failure the loop reports
\* it, sleeps its fixed 2 s and begins a new cycle; no byte is received or
\* appended during the attempts and the idling.
C32_BoundedRetries ==
  /\ [](/\ retry.failed <= connectRecurs + 1
        /\ Len(retry.slept) <= connectRecurs
        /\ \A i \in 1..Len(retry.slept) :
             /\ retry.slept[i] = connectBaseSeconds * 2^(i - 1)
             /\ i > 1 => retry.slept[i] = 2 * retry.slept[i - 1]
        /\ retry.reported <=> (retry.pc = "failed")
        /\ (retry.pc = "failed") =>
             /\ retry.failed = connectRecurs + 1
             /\ ing.pc \in {"cooldown", "connect", "done"}
        /\ (retry.pc \in {"attempt", "backoff", "failed"}) =>
             /\ written = retry.from
             /\ ing.pc \in {"none", "connect", "cooldown", "done"})
  /\ [][(retry.pc = "failed" /\ retry' # retry)
          => /\ ing.pc = "connect"
             /\ retry'.from = written /\ retry'.slept \in {<<>>, <<connectBaseSeconds>>}
             /\ retry'.failed <= 1]_vars

\* C32 witness: after a stream was read and ended, a cycle of six failed
\* attempts and five doubling delays was reported, and the loop idles.
C32_Witness ==
  /\ retry.pc = "failed" /\ retry.reported /\ ing.pc = "cooldown"
  /\ retry.failed = 6 /\ retry.slept = <<1, 2, 4, 8, 16>>
  /\ written > 0 /\ retry.from = written

\* C33: after a tick that wrote, the next write instant is the larger of
\* anchor + chunkDurationMs and now, so the sleep lies in 0..chunkDurationMs
\* and is slept in full, and writes do not come in bursts after a slow tick:
\* of three writes in a row the third is at least chunkDurationMs after the
\* first.  A tick that found the state paused or the buffer short of a chunk
\* leaves no anchor.
C33_Pacing ==
  /\ pace.kind = "write" =>
       /\ pace.anchored
       /\ pace.nextWriteAt = Max(pace.anchor + chunkDurationMs, pace.now)
       /\ pace.sleepMs \in 0..chunkDurationMs
       /\ pace.slept = pace.sleepMs
       /\ Len(pace.writes) = 3 =>
            pace.writes[3] - pace.writes[1] >= chunkDurationMs
  /\ pace.kind \in {"paused", "low"} => ~pace.anchored

\* C33 witness: a slow tick (250 ms after its anchor) slept 0 ms, the next
\* tick wrote in the same millisecond, and the tick after it wrote
\* chunkDurationMs later and sleeps chunkDurationMs again.
C33_Witness ==
  /\ pace.kind = "write" /\ Len(pace.writes) = 3
  /\ pace.writes[2] = pace.writes[1]
  /\ pace.writes[3] = pace.writes[2] + chunkDurationMs
  /\ pace.sleepMs = chunkDurationMs
  /\ pace.writes[1] >= 250

\* C33 witness, the slow tick itself: now is past anchor + chunkDurationMs,
\* the next instant is now and the sleep is 0.
C33_WitnessSlow ==
  /\ pace.kind = "write" /\ pace.now > pace.anchor + chunkDurationMs
  /\ pace.nextWriteAt = pace.now /\ pace.sleepMs = 0

----------------------------------------------------------------------------
\* Claims about the scheduler (checked under SpecSchedRun and SpecSched)

\* C13: at most one performRebuild is executing at any time, under any
\* interleaving of the daily trigger, manual rebuildNow() calls and the
\* scheduler's stop().
C13_OneRebuild == Cardinality({i \in RebuildIds : Executing(i)}) <= 1

C15_ProbeFailure ==
  [][/\ ProbeFail =>
          /\ UNCHANGED <<pbState, stateRef, file, memRef, live>>
          /\ ~rebuildLockRef'
     /\ (\E i \in RebuildIds : rb[i].pc = "forked" /\ rb'[i].pc = "probe") =>
          UNCHANGED <<pbState, stateRef, file, memRef, live>>
    ]_vars

\* The only rebuild so far ended without a pause ever having happened, while
\* playback was playing from a non-empty buffer.
C15_Witness ==
  /\ variant = "probe"
  /\ rb[1].pc = "done" /\ rb[2].pc = "unborn"
  /\ hist.phase = "none" /\ pbState = "playing"
  /\ stateRef.totalSize > 0
  /\ ~rebuildLockRef

\* C17: a rebuild goes pause, clear, wait, resume, release of the lock, in
\* that order: playback is paused only by a rebuild entering its
\* clear, under the lock; the wait begins with playback paused (or not yet
\* started) and the buffer just cleared; playback leaves paused only when a waiting rebuild ends
\* (with the buffer at target size, or by the probe version's timeout); and
\* the lock is never released with playback still paused.
C17_RebuildOrder ==
  [][/\ (pbState # "paused" /\ pbState' = "paused") =>
          /\ rebuildLockRef'
          /\ \E i \in RebuildIds :
                /\ rb[i].pc \in {"forked", "probe"}
                /\ rb'[i].pc \in {"clearWait", "refill"}
     /\ \A i \in RebuildIds :
          (rb[i].pc # "refill" /\ rb'[i].pc = "refill") =>
             /\ pbState' \notin {"playing", "buffering"}
             /\ stateRef'.totalSize = 0 /\ live' = <<>>
     /\ (pbState = "paused" /\ pbState' # "paused") =>
          /\ pbState' = "buffering"
          /\ \E i \in RebuildIds : rb[i].pc = "refill" /\ rb'[i].pc = "done"
          /\ variant = "probe" \/ stateRef.totalSize >= targetSize
     /\ (rebuildLockRef /\ ~rebuildLockRef') => pbState' # "paused"
    ]_vars

\* A rebuild ran to its end: playback was paused, resumed to buffering and
\* plays again from the refilled buffer, with the lock released.
C17_Witness ==
  /\ rb[1].pc = "done" /\ ~rebuildLockRef
  /\ hist.phase = "replayed" /\ pbState = "playing"
  /\ stateRef.totalSize > 0

\* C16: every rebuild that paused the consumer eventually resumes it: from
\* any state in which playback is paused, playback is again buffering later,
\* even when the Source delivers nothing more.
C16_EventuallyResumes == (pbState = "paused") ~> (pbState = "buffering")

\* C18: when the scheduler's stop() returns, the scheduling loop is not
\* running, no rebuild is running and the rebuild lock is false, whatever the
\* state in which stop() was called.
C18_StopLeavesNothing ==
  [][(schedStopPc # "done" /\ schedStopPc' = "done") =>
        /\ loopPc' \in {"none", "done"}
        /\ \A i \in RebuildIds : rb'[i].pc \in {"unborn", "done"}
        /\ ~rebuildLockRef'
    ]_vars

----------------------------------------------------------------------------
\* Claims about the HealthService (checked under SpecHealth)

\* The events the samples call for: armed for a sample of 80 or more that
\* arrives while disarmed, alert for a sample below 20 that arrives while armed.
RECURSIVE Expected(_, _)
Expected(ss, armed) ==
  IF ss = <<>> THEN <<>>
  ELSE IF Head(ss) >= 80 /\ ~armed THEN <<"armed">> \o Expected(Tail(ss), TRUE)
  ELSE IF Head(ss) < 20 /\ armed THEN <<"alert">> \o Expected(Tail(ss), FALSE)
  ELSE Expected(Tail(ss), armed)

\* C20: an armed event is reported exactly when a sample of 80 or more arrives
\* while disarmed and an alert exactly when a sample below 20 arrives while
\* armed; the events alternate, starting with armed (no alert on a cold
\* start); the threshold is armed exactly after an armed event not yet
\* followed by an alert; 10, 85, 15 gives one armed and one alert, and
\* 10, 85, 50 gives the armed event only.
C20_Thresholds ==
  /\ events = Expected(samples, FALSE)
  /\ \A k \in 1..Len(events) :
        events[k] = IF k % 2 = 1 THEN "armed" ELSE "alert"
  /\ thresholdRef.armed = (Len(events) % 2 = 1)
  /\ samples = <<10, 85, 15>> => events = <<"armed", "alert">>
  /\ samples = <<10, 85, 50>> => events = <<"armed">>

\* The samples 10, 85, 15 have arrived: armed, then alert, and disarmed again.
C20_Witness ==
  /\ samples = <<10, 85, 15>>
  /\ events = <<"armed", "alert">>
  /\ ~thresholdRef.armed

\* A rebuild that has paused playback and has not yet resumed it.
RebuildHoldsPause ==
  pbState = "paused" /\ \E i \in RebuildIds : rb[i].pc \in {"clearWait", "refill"}

\* C36: from a rebuild's pause() to that rebuild's resume() the playback state
\* stays paused and the playback loop takes no bytes out of the buffer, also
\* when the loop had read the state just before the pause.
C36_NoConsumeWhilePaused ==
  [][RebuildHoldsPause =>
       /\ (pbState' # "paused") => (RefillDone \/ RefillTimeout)
       /\ ~ConsumeEnd]_vars

\* C36, the part that holds: the state stays paused until the rebuild's
\* resume(), and the loop begins no consume on a state it read as paused.
C36_StaysPaused ==
  [][RebuildHoldsPause =>
       /\ (pbState' # "paused") => (RefillDone \/ RefillTimeout)
       /\ (play.pc = "loop") => (play'.pc \notin {"consumeWait", "consuming"})]_vars

\* C37: whenever the rebuild lock is false and no rebuild is running, the
\* playback state is not paused: a rebuild that paused also resumes before it
\* ends, on every exit path, interruption by the scheduler's stop() included.
C37_PausedOnlyInRebuild ==
  (~rebuildLockRef /\ \A i \in RebuildIds : ~InFlight(i)) => pbState # "paused"

\* C31: with the monitor loop and health queries evaluating the threshold
\* concurrently, every evaluation that changes ThresholdArm is the one that
\* reports the event, and the reports alternate armed, alert, armed, ...: no
\* crossing is reported twice.
C31_OneEventPerTransition ==
  /\ \A i \in 1..Len(events) :
       events[i] = IF i % 2 = 1 THEN "armed" ELSE "alert"
  /\ thresholdRef.armed <=> (Len(events) % 2 = 1)

\* C31 witness: one fiber has armed the threshold and reported it while two
\* other fibers hold a percentage of at least ArmAt that they have read and
\* not yet evaluated.
C31_Witness ==
  /\ events = <<"armed">> /\ thresholdRef.armed /\ Len(samples) = 1
  /\ Cardinality({e \in Evaluators :
         evaluating[e].sampled /\ evaluating[e].percentage >= ArmAt}) = 2

\* C31 witness, the alert: after armed and alert were reported once each, a
\* fiber holds a percentage below AlertBelow that it has not yet evaluated.
C31_WitnessAlert ==
  /\ events = <<"armed", "alert">> /\ ~thresholdRef.armed
  /\ \E e \in Evaluators :
       evaluating[e].sampled /\ evaluating[e].percentage < AlertBelow

\* The local hour-of-day instant that a Date is, and whether it is the
\* configured hour.
AtHour(zone, hour, t) == LocalTime(zone, t) % 1440 = Hours(hour)

\* C34: for every current time and configured hour, nextHourInfo gives the
\* next instant at which the local time is the configured hour (today if that
\* is still ahead, else tomorrow); the delay is more than 0 and at most
\* 24 hours; and called exactly at the configured hour it gives the next day.
C34_NextOccurrence ==
  wall.called =>
    /\ wall.ms > 0 /\ wall.ms <= Hours(24)
    /\ wall.at = wall.now + wall.ms
    /\ AtHour(wall.zone, wall.hour, wall.at)
    /\ \A t \in (wall.now + 1)..(wall.at - 1) : ~AtHour(wall.zone, wall.hour, t)
    /\ AtHour(wall.zone, wall.hour, wall.now) =>
         LocalTime(wall.zone, wall.at) \div 1440
           = LocalTime(wall.zone, wall.now) \div 1440 + 1

\* C34, what holds where the offset of the host's zone never changes.
C34_FixedOffset == (wall.zone = "fixed") => C34_NextOccurrence

\* C34, what holds in every zone: the delay is more than 0 and at most 25
\* hours, and a call exactly at target time gives a later day.
C34_Positive ==
  wall.called =>
    /\ wall.ms > 0 /\ wall.ms <= Hours(25)
    /\ LocalTime(wall.zone, wall.at) \div 1440
         \in {LocalTime(wall.zone, wall.now) \div 1440,
              LocalTime(wall.zone, wall.now) \div 1440 + 1}

----------------------------------------------------------------------------
\* Claims about the health report (checked under SpecQuery)

Abs(x) == IF x < 0 THEN -x ELSE x

\* The reported percentage is min(100, filled / target * 100) to two
\* decimals: a whole number of hundredths, at most half a hundredth away
\* (for a capacity whose products fit the integers of the checker).
PercentageToTwoDecimals ==
  (lastHealth.taken /\ lastHealth.targetSize > 0 /\ lastHealth.targetSize <= 200000) =>
    /\ lastHealth.percentage \in 0..10000
    /\ 2 * Abs(lastHealth.percentage * lastHealth.targetSize
                - 10000 * Min(lastHealth.currentSize, lastHealth.targetSize))
         <= lastHealth.targetSize

\* C27: for every fill level from 0 to the capacity, the reported percentage
\* is min(100, filled / target * 100) to two decimals, and isHealthy is true
\* exactly when the reported percentage is 80 or more.
C27_HealthyAtReported80 ==
  /\ PercentageToTwoDecimals
  /\ (lastHealth.taken /\ lastHealth.targetSize > 0) =>
       (lastHealth.isHealthy <=> lastHealth.percentage >= 8000)

\* What holds instead of C27's second half: isHealthy is true exactly when
\* the percentage before rounding, filled / target * 100, is 80 or more.
HealthyBeforeRounding ==
  (lastHealth.taken /\ lastHealth.targetSize > 0) =>
    (lastHealth.isHealthy <=>
       100 * lastHealth.currentSize >= 80 * lastHealth.targetSize)

\* C28 as claimed: with a capacity of 3,600,000 bytes and 24 KB/s, a buffer
\* of 1,800,000 bytes is reported as 50.00 % and about 30 minutes.
C28_AboutThirtyMinutes ==
  (lastHealth.taken /\ lastHealth.targetSize = 3600000
     /\ lastHealth.currentSize = 1800000) =>
    /\ lastHealth.percentage = 5000
    /\ lastHealth.durationMinutes \in 25..35

\* C28: the minutes reported are filled / (bitrateKBps * 1024) / 60 rounded
\* to a whole number; with a capacity of 3,600,000 bytes and 24 KB/s, a
\* buffer of 1,800,000 bytes is reported as 50.00 % and 1 minute.
C28_EstimatedMinutes ==
  lastHealth.taken =>
    /\ 2 * Abs(lastHealth.durationMinutes * (bitrateKBps * 1024 * 60)
                - lastHealth.currentSize)
         <= bitrateKBps * 1024 * 60
    /\ (lastHealth.targetSize = 3600000 /\ lastHealth.currentSize = 1800000) =>
         (lastHealth.percentage = 5000 /\ lastHealth.durationMinutes = 1)

\* C28 witness: the report of 1,800,000 bytes in a buffer of 3,600,000.
C28_Witness ==
  /\ lastHealth.taken
  /\ lastHealth.targetSize = 3600000 /\ lastHealth.currentSize = 1800000
  /\ lastHealth.percentage = 5000 /\ lastHealth.durationMinutes = 1

\* C21: a query that did not fail reports healthy where isHealthy, else
\* degraded where the percentage is 30 or more, else unhealthy, and is
\* answered with 200 for healthy and degraded and with 503 for unhealthy; a
\* query that failed is answered with 503.
C21_StatusAndCode ==
  /\ response.status \in {"healthy", "degraded", "unhealthy"} =>
       /\ lastHealth.taken
       /\ lastHealth = getHealth(stateRef)
       /\ response.status =
            (IF lastHealth.isHealthy THEN "healthy"
             ELSE IF lastHealth.percentage >= 3000 THEN "degraded"
             ELSE "unhealthy")
       /\ response.code =
            (IF response.status \in {"healthy", "degraded"} THEN 200 ELSE 503)
  /\ response.status = "failed" => response.code = 503
  /\ response.code \in {0, 200, 404, 503}

\* C21 witness: degraded and 200 for a buffer reported as 30.00 % full.
C21_Witness ==
  /\ response.code = 200 /\ response.status = "degraded"
  /\ lastHealth.percentage = 3000 /\ ~lastHealth.isHealthy

\* C21 witnesses: unhealthy and 503 just below 30 %; healthy and 200.
C21_WitnessUnhealthy ==
  /\ response.code = 503 /\ response.status = "unhealthy"
  /\ lastHealth.percentage > 0

C21_WitnessHealthy ==
  /\ response.code = 200 /\ response.status = "healthy"
  /\ lastHealth.percentage < 10000

\* C30: a step that takes a health sample (by the monitor or for a query)
\* or answers a request changes no field of the buffer, not the playback
\* state and not the rebuild lock, nor anything else but the threshold arm
\* (with the sample and the reports it sends) and the answer.
C30_SampleFrame ==
  [][(lastHealth' # lastHealth \/ response' # response
        \/ samples' # samples \/ thresholdRef' # thresholdRef) =>
       /\ UNCHANGED <<targetSize, file, stateRef, memRef, written, live, lastOp>>
       /\ UNCHANGED <<pbState, hist, lock, ing, play, player, sink>>
       /\ UNCHANGED <<rebuildLockRef, rebuildFiberRef, rb, lastCall>>]_vars

\* C30 witness: two samples of a buffer that is 80 % full, taken while
\* playback is paused and the rebuild lock is held, armed the threshold.
C30_Witness ==
  /\ Len(samples) = 2 /\ thresholdRef.armed
  /\ lastHealth.taken /\ lastHealth.currentSize > 0
  /\ pbState = "paused" /\ rebuildLockRef

----------------------------------------------------------------------------
\* Claims about the shutdown (checked under SpecMain)

\* C19: the shutdown sequence (playback.stop, scheduler.stop, health.stop)
\* ends from every state in which it is started, a rebuild in flight
\* included: once shutting down, the program exits; at the exit the three
\* stops have returned, no rebuild is in flight and the rebuild lock is
\* released; and a second signal does not start the sequence again.
C19_Shutdown ==
  /\ shuttingDown ~> (shutdownPc = "exited")
  /\ [](shutdownPc = "exited" =>
          /\ stopPc = "done" /\ schedStopPc = "done" /\ healthStopPc = "done"
          /\ \A i \in RebuildIds : ~InFlight(i)
          /\ ~rebuildLockRef)
  /\ [](shutdownRuns <= 1)

\* The program has exited after repeated signals, one run of the sequence,
\* and a rebuild that the scheduler's stop() interrupted in flight.
C19_Witness ==
  /\ shutdownPc = "exited"
  /\ signals = "repeated" /\ shutdownRuns = 1
  /\ \E i \in RebuildIds : rb[i].pc = "done" /\ rb[i].intr

====
